---- MODULE Spec2Model ----
(***************************************************************************)
(* Model of the VRZ trading bot: the trades collection and the exit        *)
(* processing of the trading loop (trading/exit_engine.py,                 *)
(* trading/position_manager.py, main.py), the zone store                   *)
(* (database/repositories/vrz_repository.py, strategies/vrz_calculator.py),*)
(* position reconciliation (PositionManager.sync_with_exchange) and the    *)
(* entry scan (trading/entry_engine.py, strategies/risk_manager.py).       *)
(*                                                                         *)
(* Prices are integers.  In the exit part the unit is arbitrary (only      *)
(* comparisons and products with quantities are taken).                    *)
(***************************************************************************)
EXTENDS Integers, Sequences, FiniteSets

VARIABLES
    trades,           \* the 'trades' collection: a sequence of trade documents
    loop_pc,          \* trading_loop position: "idle" | "positions" | "actions"
    open_positions,   \* the snapshot returned by get_open_positions(user_id)
    pos_idx,          \* index of the position being visited in open_positions
    current_price,    \* candles[-1]['close'] of the position being visited
    exit_result,      \* exit_result['actions'] returned by manage_exits
    action_idx,       \* index of the next action of exit_result to apply
    order_responses,  \* place_order outcomes of the last manage_exits call
    orders,           \* exit orders the exchange acknowledged, in order
    close_pc,         \* close_position call: "idle" | "closing"
    close_id,         \* position_id argument of the close_position in flight
    zones,            \* the 'vrz_zones' collection: a sequence of zone documents
    zone_query,       \* the last zone query: its name, arguments and result
    check_pc,         \* check_and_invalidate call: "idle" | "loop"
    check_args,       \* its arguments: symbol and current_candle
    active_zones,     \* its list of zones read from the store
    zone_idx,         \* index of the zone its 'for zone in active_zones' visits
    sync_result,      \* the last sync_with_exchange call: arguments and result
    scan_result,      \* the last scan_for_entry_signals call: inputs and result
    fn_call,          \* the last call of a function of strategies/: arguments, result
    running,          \* TradingBotApp.running
    cancel_requested, \* trading_task.cancel() was called and is not yet delivered
    app_pc,           \* where trading_loop is suspended, or how the task ended
    active_users,     \* the list returned by get_all_active_users()
    user_idx,         \* index of the user 'for user_settings in active_users' visits
    assets,           \* the assets of that user
    asset_idx,        \* index of the asset 'for asset in assets' visits
    signal,           \* the signal returned by the scan of that asset
    order_response,   \* the response of the entry order, in flight or returned
    acknowledged,     \* ids of the entry orders the exchange accepted
    attempted         \* users, assets and positions the iteration has come to

exitVars == <<trades, loop_pc, open_positions, pos_idx, current_price,
              exit_result, action_idx, order_responses, orders, close_pc, close_id>>

zoneVars == <<zones, zone_query, check_pc, check_args, active_zones, zone_idx>>

callVars == <<sync_result, scan_result, fn_call>>

appVars == <<running, cancel_requested, app_pc, active_users, user_idx, assets,
             asset_idx, signal, order_response, acknowledged, attempted>>

vars == <<exitVars, zoneVars, callVars, appVars>>

----------------------------------------------------------------------------
(* Bounds of the model *)

MaxSize == 3          \* lot sizes 1..MaxSize
MaxTargets == 3       \* positions carry 1..MaxTargets targets
MaxZones == 2         \* the zone store holds at most MaxZones documents
MaxPositions == 2     \* positions in the trades collection when reconciling
MaxPatterns == 2      \* patterns detected at one candle

----------------------------------------------------------------------------
(* Constants of the program *)

SIDE_BUY == "buy"
SIDE_SELL == "sell"

Max(a, b) == IF a >= b THEN a ELSE b
Abs(a) == IF a >= 0 THEN a ELSE 0 - a

\* bson ObjectId values and their str() form are different values: a filter on
\* '_id' only matches a document when it is given the ObjectId.
Oid(n) == [kind |-> "ObjectId", hex |-> n]
Str(id) == [kind |-> "str", hex |-> id.hex]
ObjectId(s) == [kind |-> "ObjectId", hex |-> s.hex]

\* PARTIAL_EXIT_PERCENTAGES.get(num_targets, [100])
PARTIAL_EXIT_PERCENTAGES(num_targets) ==
    IF num_targets = 2 THEN <<50, 50>>
    ELSE IF num_targets = 3 THEN <<33, 33, 34>>
    ELSE IF num_targets = 4 THEN <<25, 25, 25, 25>>
    ELSE <<100>>

----------------------------------------------------------------------------
(* strategies/risk_manager.py.  A risk/reward ratio r is carried as the    *)
(* integer 2*r (the configurable ratios are multiples of 0.5).             *)

calculate_risk(entry_price, stop_loss) == Abs(entry_price - stop_loss)

calculate_target_by_rr(entry_price, stop_loss, side, rr_x2) ==
    LET reward == (calculate_risk(entry_price, stop_loss) * rr_x2) \div 2
    IN  IF side = SIDE_BUY THEN entry_price + reward ELSE entry_price - reward

calculate_target_by_zone(entry_price, side, vrz_zone) ==
    IF side = SIDE_BUY THEN vrz_zone.zone_lower ELSE vrz_zone.zone_upper

calculate_multiple_targets(entry_price, stop_loss, side, target_type, target_levels, vrz_zones) ==
    IF target_type = "rr" /\ Len(target_levels) > 0 THEN
        LET pct == PARTIAL_EXIT_PERCENTAGES(Len(target_levels))
        IN  [i \in 1..Len(target_levels) |->
               [level |-> i,
                price |-> calculate_target_by_rr(entry_price, stop_loss, side,
                                                 target_levels[i]),
                exit_percentage |-> IF i <= Len(pct) THEN pct[i] ELSE 100]]
    ELSE IF target_type = "zone" /\ Len(vrz_zones) > 0 THEN
        LET pct == PARTIAL_EXIT_PERCENTAGES(Len(vrz_zones))
        IN  [i \in 1..Len(vrz_zones) |->
               [level |-> i,
                price |-> calculate_target_by_zone(entry_price, side, vrz_zones[i]),
                exit_percentage |-> IF i <= Len(pct) THEN pct[i] ELSE 100]]
    ELSE <<>>

----------------------------------------------------------------------------
(* trading/position_manager.py: the trades collection *)

\* index of the document whose _id equals id, 0 when there is none
FindOne(coll, id) ==
    IF \E i \in DOMAIN coll : coll[i].id = id
    THEN CHOOSE i \in DOMAIN coll :
            coll[i].id = id /\ \A j \in DOMAIN coll : coll[j].id = id => i <= j
    ELSE 0

\* the response of place_order for an order the exchange accepted
OrderAccepted(order_id) == [success |-> TRUE, result |-> [id |-> order_id]]

create_position(id, entry_signal, order_response_) ==
    [id |-> id,
     order_id |-> order_response_.result.id,
     telegram_user_id |-> entry_signal.telegram_user_id,
     symbol |-> entry_signal.symbol,
     product_id |-> entry_signal.product_id,
     side |-> entry_signal.side,
     entry_price |-> entry_signal.entry_price,
     stop_loss |-> entry_signal.stop_loss,
     targets |-> entry_signal.targets,
     position_size |-> entry_signal.lot_size,
     remaining_size |-> entry_signal.lot_size,
     status |-> "open",
     exit_details |-> <<>>,
     pnl |-> 0]

RECURSIVE SelectOpen(_, _, _)
SelectOpen(coll, telegram_user_id, i) ==
    IF i > Len(coll) THEN <<>>
    ELSE (IF coll[i].status = "open"
             /\ (telegram_user_id = 0 \/ coll[i].telegram_user_id = telegram_user_id)
          THEN <<coll[i]>> ELSE <<>>)
         \o SelectOpen(coll, telegram_user_id, i + 1)

\* get_open_positions: query {'status': 'open'} and, for a truthy user id, the user
get_open_positions(coll, telegram_user_id) == SelectOpen(coll, telegram_user_id, 1)

\* mutant: the status is written on every update, 'open' when something remains
UpdatedExitDocument_WritesStatus(position, exit_action) ==
    [position EXCEPT !.exit_details = Append(position.exit_details, exit_action),
                     !.remaining_size = exit_action.remaining_quantity,
                     !.pnl = position.pnl + exit_action.pnl,
                     !.status = IF exit_action.remaining_quantity = 0
                                THEN "closed" ELSE "open"]

\* the '$set' of update_position_exit applied to the document read by get_position
UpdatedExitDocument(position, exit_action) ==
    LET remaining_size == exit_action.remaining_quantity
        total_pnl == position.pnl + exit_action.pnl
    IN  IF remaining_size = 0
        THEN [position EXCEPT !.exit_details = Append(position.exit_details, exit_action),
                              !.remaining_size = remaining_size,
                              !.pnl = total_pnl,
                              !.status = "closed"]
        ELSE [position EXCEPT !.exit_details = Append(position.exit_details, exit_action),
                              !.remaining_size = remaining_size,
                              !.pnl = total_pnl]

update_position_exit(coll, position_id, exit_action) ==
    LET i == FindOne(coll, ObjectId(position_id))
    IN  IF i = 0 THEN coll
        ELSE [coll EXCEPT ![i] = UpdatedExitDocument(coll[i], exit_action)]

update_stop_loss(coll, position_id, new_stop_loss) ==
    LET i == FindOne(coll, ObjectId(position_id))
    IN  IF i = 0 THEN coll
        ELSE [coll EXCEPT ![i].stop_loss = new_stop_loss]

\* the '$set' of close_position after the exchange confirmed the close
ClosedDocument(position) ==
    [position EXCEPT !.status = "closed", !.remaining_size = 0]

----------------------------------------------------------------------------
(* trading/exit_engine.py *)

\* an action dictionary; a key the dictionary does not carry is 0
ExitAction(action, target_level, exit_price, exit_quantity, remaining_quantity, pnl, new_stop_loss) ==
    [action |-> action, target_level |-> target_level, exit_price |-> exit_price,
     exit_quantity |-> exit_quantity, remaining_quantity |-> remaining_quantity,
     pnl |-> pnl, new_stop_loss |-> new_stop_loss]

_is_target_hit(price, target, side) ==
    IF side = SIDE_BUY THEN price >= target.price ELSE price <= target.price

_is_stop_loss_hit(price, stop_loss, side) ==
    IF side = SIDE_BUY THEN price <= stop_loss ELSE price >= stop_loss

\* int(trade['remaining_size'] * (exit_percentage / 100)), at least 1
ExitQuantity(trade, target) ==
    Max(1, (trade.remaining_size * target.exit_percentage) \div 100)

ExitPnl(trade, price, quantity) ==
    IF trade.side = SIDE_BUY THEN (price - trade.entry_price) * quantity
    ELSE (trade.entry_price - price) * quantity

\* mutant: the response of place_order is not looked at
_execute_partial_exit_unchecked(trade, target, price, success) ==
    LET exit_quantity == ExitQuantity(trade, target)
    IN  <<ExitAction("partial_exit", target.level, price, exit_quantity,
                     trade.remaining_size - exit_quantity,
                     ExitPnl(trade, price, exit_quantity), 0)>>

\* the actions (none or one) of _execute_partial_exit; success is the order's outcome
_execute_partial_exit(trade, target, price, success) ==
    LET exit_quantity == ExitQuantity(trade, target)
    IN  IF success
        THEN <<ExitAction("partial_exit", target.level, price, exit_quantity,
                          trade.remaining_size - exit_quantity,
                          ExitPnl(trade, price, exit_quantity), 0)>>
        ELSE <<>>

\* mutant: the stop exit sized like a partial exit
_execute_stop_loss_exit_partial(trade, price, success) ==
    LET exit_quantity == Max(1, trade.remaining_size \div 2)
    IN  IF success
        THEN <<ExitAction("stop_loss_exit", 0, price, exit_quantity,
                          trade.remaining_size - exit_quantity,
                          ExitPnl(trade, price, exit_quantity), 0)>>
        ELSE <<>>

_execute_stop_loss_exit(trade, price, success) ==
    IF success
    THEN <<ExitAction("stop_loss_exit", 0, price, trade.remaining_size, 0,
                      ExitPnl(trade, price, trade.remaining_size), 0)>>
    ELSE <<>>

_should_trail_stop(trade) ==
    Len(trade.exit_details) > 0 /\ trade.remaining_size > 0

\* mutant: the current stop is not looked at
_calculate_trailing_stop_any_stop(trade, price) ==
    IF trade.side = SIDE_BUY
    THEN (IF price > trade.entry_price THEN trade.entry_price ELSE 0)
    ELSE (IF price < trade.entry_price THEN trade.entry_price ELSE 0)

\* mutant: the price is not looked at
_calculate_trailing_stop_any_price(trade, price) ==
    IF trade.side = SIDE_BUY
    THEN (IF trade.stop_loss < trade.entry_price THEN trade.entry_price ELSE 0)
    ELSE (IF trade.stop_loss > trade.entry_price THEN trade.entry_price ELSE 0)

\* the new stop of _calculate_trailing_stop, 0 for None
_calculate_trailing_stop(trade, price) ==
    IF trade.side = SIDE_BUY
    THEN (IF price > trade.entry_price /\ trade.stop_loss < trade.entry_price
          THEN trade.entry_price ELSE 0)
    ELSE (IF price < trade.entry_price /\ trade.stop_loss > trade.entry_price
          THEN trade.entry_price ELSE 0)

\* e['target_level'] for e in exit_details
ExitedLevels(trade) ==
    {trade.exit_details[k].target_level : k \in DOMAIN trade.exit_details}

\* e['target_level'] raises KeyError on a stop_loss_exit entry, which has no such key
TargetLevelKeyError(trade) ==
    /\ Len(trade.targets) > 0
    /\ \E k \in DOMAIN trade.exit_details :
          trade.exit_details[k].action = "stop_loss_exit"

\* mutant: the exit_details entries are not looked at
TargetDue_NoSkip(trade, target, price) ==
    _is_target_hit(price, target, trade.side)

\* manage_exits lines 39-41: the target has no exit_details entry and is hit
TargetDue(trade, target, price) ==
    /\ target.level \notin ExitedLevels(trade)
    /\ _is_target_hit(price, target, trade.side)

RECURSIVE TargetActions(_, _, _, _)
TargetActions(trade, price, ok_levels, k) ==
    IF k > Len(trade.targets) THEN <<>>
    ELSE LET target == trade.targets[k]
         IN  (IF TargetDue(trade, target, price)
              THEN _execute_partial_exit(trade, target, price,
                                         target.level \in ok_levels)
              ELSE <<>>)
             \o TargetActions(trade, price, ok_levels, k + 1)

StopActions(trade, price, ok_stop) ==
    IF _is_stop_loss_hit(price, trade.stop_loss, trade.side)
    THEN _execute_stop_loss_exit(trade, price, ok_stop)
    ELSE <<>>

TrailActions(trade, price) ==
    IF _should_trail_stop(trade) /\ _calculate_trailing_stop(trade, price) # 0
    THEN <<ExitAction("trail_stop", 0, 0, 0, 0, 0,
                      _calculate_trailing_stop(trade, price))>>
    ELSE <<>>

\* exit_result['actions'] of manage_exits(trade, current_price); responses are the
\* outcomes of the place_order calls it makes
manage_exits(trade, price, responses) ==
    IF TargetLevelKeyError(trade) THEN <<>>
    ELSE TargetActions(trade, price, responses.targets, 1)
         \o StopActions(trade, price, responses.stop)
         \o TrailActions(trade, price)

\* the exit orders acknowledged by the exchange during one manage_exits call
RECURSIVE PlacedOrders(_, _, _)
PlacedOrders(trade, actions, k) ==
    IF k > Len(actions) THEN <<>>
    ELSE (IF actions[k].action = "trail_stop" THEN <<>>
          ELSE <<[position_id |-> trade.id, product_id |-> trade.product_id,
                  kind |-> actions[k].action,
                  target_level |-> actions[k].target_level,
                  size |-> actions[k].exit_quantity]>>)
         \o PlacedOrders(trade, actions, k + 1)

----------------------------------------------------------------------------
(* The parts of the program that a specification leaves out stay idle *)

NoResponses == [targets |-> {}, stop |-> FALSE]
NoQuery == [op |-> "none"]
NoSync == [op |-> "none"]
NoScan == [op |-> "none"]
NoCall == [op |-> "none"]
None == [kind |-> "None"]
NoCheck == [symbol |-> "", current_candle |-> [high |-> 0, low |-> 0, close |-> 0]]

ExitIdle ==
    /\ trades = <<>>
    /\ loop_pc = "idle"
    /\ open_positions = <<>>
    /\ pos_idx = 1
    /\ current_price = 0
    /\ exit_result = <<>>
    /\ action_idx = 1
    /\ order_responses = NoResponses
    /\ orders = <<>>
    /\ close_pc = "idle"
    /\ close_id = Str(Oid(1))

ZoneIdle ==
    /\ zones = <<>>
    /\ zone_query = NoQuery
    /\ check_pc = "idle"
    /\ check_args = NoCheck
    /\ active_zones = <<>>
    /\ zone_idx = 1

CallsIdle ==
    /\ sync_result = NoSync
    /\ scan_result = NoScan
    /\ fn_call = NoCall

\* the application is constructed and not started: TradingBotApp.__init__
AppIdle ==
    /\ running = FALSE
    /\ cancel_requested = FALSE
    /\ app_pc = "not_started"
    /\ active_users = <<>>
    /\ user_idx = 1
    /\ assets = <<>>
    /\ asset_idx = 1
    /\ signal = None
    /\ order_response = None
    /\ acknowledged = {}
    /\ attempted = {}

----------------------------------------------------------------------------
(* Initial positions: created by create_position from a validated signal   *)

\* market prices tried for a position: at or beyond the stop, at the entry, between
\* the entry and the first target, and at each target
ExitPrices(trade) ==
    {trade.stop_loss, trade.entry_price,
     IF trade.side = SIDE_BUY THEN trade.entry_price + 5 ELSE trade.entry_price - 5}
    \cup {trade.targets[k].price : k \in DOMAIN trade.targets}
    \cup {2 * trade.entry_price - trade.targets[k].price : k \in {1} \cap DOMAIN trade.targets}

\* the levels for which manage_exits places an order at this price
AttemptedLevels(trade, price) ==
    IF TargetLevelKeyError(trade) THEN {}
    ELSE {trade.targets[k].level : k \in
            {j \in DOMAIN trade.targets : TargetDue(trade, trade.targets[j], price)}}

StopAttempted(trade, price) ==
    /\ ~TargetLevelKeyError(trade)
    /\ _is_stop_loss_hit(price, trade.stop_loss, trade.side)

\* the place_order calls of one manage_exits(trade, price), in the order made: one
\* in _execute_partial_exit for each due target, one in _execute_stop_loss_exit
RECURSIVE TargetOrderCalls(_, _, _)
TargetOrderCalls(trade, price, k) ==
    IF k > Len(trade.targets) THEN <<>>
    ELSE (IF TargetDue(trade, trade.targets[k], price)
          THEN <<[kind |-> "partial_exit", target_level |-> trade.targets[k].level]>>
          ELSE <<>>)
         \o TargetOrderCalls(trade, price, k + 1)

PlaceOrderCalls(trade, price) ==
    IF TargetLevelKeyError(trade) THEN <<>>
    ELSE TargetOrderCalls(trade, price, 1)
         \o (IF _is_stop_loss_hit(price, trade.stop_loss, trade.side)
             THEN <<[kind |-> "stop_loss_exit", target_level |-> 0]>> ELSE <<>>)

\* the first n of the configurable ratios 1.5, 2.0, 2.5, ... (as 2*r)
TargetLevels(n) == [i \in 1..n |-> i + 2]

EntrySignalFor(side, lot_size, n) ==
    LET entry_price == 100
        stop_loss == IF side = SIDE_BUY THEN 90 ELSE 110
    IN  [telegram_user_id |-> 1, symbol |-> "BTCUSD", product_id |-> 1, side |-> side,
         entry_price |-> entry_price, stop_loss |-> stop_loss,
         targets |-> calculate_multiple_targets(entry_price, stop_loss, side, "rr",
                                                TargetLevels(n), <<>>),
         lot_size |-> lot_size]

InitExit ==
    /\ \E side \in {SIDE_BUY, SIDE_SELL}, lot_size \in 1..MaxSize, n \in 1..MaxTargets :
          trades = <<create_position(Oid(1), EntrySignalFor(side, lot_size, n), OrderAccepted(1))>>
    /\ loop_pc = "idle"
    /\ open_positions = <<>>
    /\ pos_idx = 1
    /\ current_price = 0
    /\ exit_result = <<>>
    /\ action_idx = 1
    /\ order_responses = NoResponses
    /\ orders = <<>>
    /\ close_pc = "idle"
    /\ close_id = Str(Oid(1))
    /\ ZoneIdle
    /\ CallsIdle
    /\ AppIdle

----------------------------------------------------------------------------
(* main.py: trading_loop, the position management of one iteration *)

Position == open_positions[pos_idx]

\* line 139: open_positions = await position_manager.get_open_positions(user_id)
GetOpenPositions ==
    /\ UNCHANGED <<zoneVars, callVars, appVars>>
    /\ loop_pc = "idle"
    /\ open_positions' = get_open_positions(trades, 1)
    /\ pos_idx' = 1
    /\ loop_pc' = "positions"
    /\ UNCHANGED <<trades, current_price, exit_result, action_idx, order_responses,
                   orders, close_pc, close_id>>

\* lines 144-155: the candle fetch gives a price and manage_exits runs on the snapshot
ManageExits ==
    /\ UNCHANGED <<zoneVars, callVars, appVars>>
    /\ loop_pc = "positions"
    /\ pos_idx <= Len(open_positions)
    /\ \E price \in ExitPrices(Position) :
       \E ok_levels \in SUBSET AttemptedLevels(Position, price),
          ok_stop \in {b \in BOOLEAN : b => StopAttempted(Position, price)} :
          LET responses == [targets |-> ok_levels, stop |-> ok_stop]
              actions == manage_exits(Position, price, responses)
          IN  /\ current_price' = price
              /\ order_responses' = responses
              /\ exit_result' = actions
              /\ orders' = orders \o PlacedOrders(Position, actions, 1)
    /\ action_idx' = 1
    /\ loop_pc' = "actions"
    /\ UNCHANGED <<trades, open_positions, pos_idx, close_pc, close_id>>

\* line 151: 'if candles:' is false, the position is skipped
SkipPosition ==
    /\ UNCHANGED <<zoneVars, callVars, appVars>>
    /\ loop_pc = "positions"
    /\ pos_idx <= Len(open_positions)
    /\ pos_idx' = pos_idx + 1
    /\ UNCHANGED <<trades, loop_pc, open_positions, current_price, exit_result,
                   action_idx, order_responses, orders, close_pc, close_id>>

\* lines 144-149, 175-177: the candle fetch raises, the iteration is abandoned
IterationError ==
    /\ UNCHANGED <<zoneVars, callVars, appVars>>
    /\ loop_pc = "positions"
    /\ pos_idx <= Len(open_positions)
    /\ loop_pc' = "idle"
    /\ open_positions' = <<>>
    /\ pos_idx' = 1
    /\ UNCHANGED <<trades, current_price, exit_result, action_idx, order_responses,
                   orders, close_pc, close_id>>

\* lines 158-166: one action of exit_result is written to the store
ApplyAction ==
    /\ UNCHANGED <<zoneVars, callVars, appVars>>
    /\ loop_pc = "actions"
    /\ action_idx <= Len(exit_result)
    /\ LET action == exit_result[action_idx]
           position_id == Str(Position.id)
       IN  trades' = IF action.action \in {"partial_exit", "stop_loss_exit"}
                     THEN update_position_exit(trades, position_id, action)
                     ELSE IF action.action = "trail_stop"
                     THEN update_stop_loss(trades, position_id, action.new_stop_loss)
                     ELSE trades
    /\ action_idx' = action_idx + 1
    /\ UNCHANGED <<loop_pc, open_positions, pos_idx, current_price, exit_result,
                   order_responses, orders, close_pc, close_id>>

\* the 'for action' loop is over: on to the next open position
NextPosition ==
    /\ UNCHANGED <<zoneVars, callVars, appVars>>
    /\ loop_pc = "actions"
    /\ action_idx > Len(exit_result)
    /\ loop_pc' = "positions"
    /\ pos_idx' = pos_idx + 1
    /\ current_price' = 0
    /\ exit_result' = <<>>
    /\ action_idx' = 1
    /\ order_responses' = NoResponses
    /\ UNCHANGED <<trades, open_positions, orders, close_pc, close_id>>

\* lines 168-173: the 'for position' loop is over, the iteration ends
EndIteration ==
    /\ UNCHANGED <<zoneVars, callVars, appVars>>
    /\ loop_pc = "positions"
    /\ pos_idx > Len(open_positions)
    /\ loop_pc' = "idle"
    /\ open_positions' = <<>>
    /\ pos_idx' = 1
    /\ UNCHANGED <<trades, current_price, exit_result, action_idx, order_responses,
                   orders, close_pc, close_id>>

----------------------------------------------------------------------------
(* PositionManager.close_position, called concurrently with the loop *)

\* lines 307-310: the position is read; a position that is not open is refused
ClosePositionBegin ==
    /\ UNCHANGED <<zoneVars, callVars, appVars>>
    /\ close_pc = "idle"
    /\ \E i \in DOMAIN trades :
          /\ close_id' = Str(trades[i].id)
          /\ close_pc' = IF trades[i].status # "open" THEN "refused" ELSE "closing"
    /\ UNCHANGED <<trades, loop_pc, open_positions, pos_idx, current_price,
                   exit_result, action_idx, order_responses, orders>>

\* lines 313-331: the exchange close returns; on success the document is updated
ClosePositionEnd ==
    /\ UNCHANGED <<zoneVars, callVars, appVars>>
    /\ close_pc = "closing"
    /\ \E success \in BOOLEAN :
          LET i == FindOne(trades, ObjectId(close_id))
          IN  trades' = IF success /\ i # 0
                        THEN [trades EXCEPT ![i] = ClosedDocument(trades[i])]
                        ELSE trades
    /\ close_pc' = "idle"
    /\ UNCHANGED <<close_id, loop_pc, open_positions, pos_idx, current_price,
                   exit_result, action_idx, order_responses, orders>>

\* line 310: 'return False' of a refused call
ClosePositionRefused ==
    /\ UNCHANGED <<zoneVars, callVars, appVars>>
    /\ close_pc = "refused"
    /\ close_pc' = "idle"
    /\ UNCHANGED <<trades, close_id, loop_pc, open_positions, pos_idx, current_price,
                   exit_result, action_idx, order_responses, orders>>

----------------------------------------------------------------------------

NextLoop ==
    \/ GetOpenPositions
    \/ ManageExits
    \/ SkipPosition
    \/ IterationError
    \/ ApplyAction
    \/ NextPosition
    \/ EndIteration

Next ==
    \/ GetOpenPositions
    \/ ManageExits
    \/ SkipPosition
    \/ IterationError
    \/ ApplyAction
    \/ NextPosition
    \/ EndIteration
    \/ ClosePositionBegin
    \/ ClosePositionEnd
    \/ ClosePositionRefused

\* the trading loop with close_position calls arriving at any await
Spec == InitExit /\ [][Next]_vars

\* the trading loop alone
SpecLoop == InitExit /\ [][NextLoop]_vars

----------------------------------------------------------------------------
(* database/repositories/vrz_repository.py and strategies/vrz_calculator.py *)
(* Prices of the zone store are integers in units of 1e-4, so that the      *)
(* 0.3% buffer of a level that is a multiple of 1000 is an integer.         *)

ZONE_TYPE_RESISTANCE == "resistance"
ZONE_TYPE_SUPPORT == "support"
ZONE_STATUS_ACTIVE == "active"
ZONE_STATUS_INVALIDATED == "invalidated"

\* settings.VRZ_BUFFER_PERCENT = 0.3, carried as thousandths of the price level
VRZ_BUFFER_PERCENT_X10 == 3

\* self.base_timeframe and self.trading_timeframe of the calculator
base_timeframe == "1h"
trading_timeframe == "15m"

\* mutant: the buffer is applied above the level only
ZoneBounds_above_only(price_level, buffer_percent_x10) ==
    LET buffer == (price_level * buffer_percent_x10) \div 1000
    IN  [zone_lower |-> price_level, zone_upper |-> price_level + buffer]

\* lines 104-108 for a calculator whose buffer_percent is buffer_percent_x10 / 10
ZoneBounds(price_level, buffer_percent_x10) ==
    LET buffer == (price_level * buffer_percent_x10) \div 1000
    IN  [zone_lower |-> price_level - buffer, zone_upper |-> price_level + buffer]

_calculate_zone_bounds(price_level) == ZoneBounds(price_level, VRZ_BUFFER_PERCENT_X10)

\* a zone document; breach_price 0 stands for breach_details = None
VRZZone(id, symbol, type, price_level, timeframe, status) ==
    [id |-> id, symbol |-> symbol, type |-> type, price_level |-> price_level,
     zone_upper |-> _calculate_zone_bounds(price_level).zone_upper,
     zone_lower |-> _calculate_zone_bounds(price_level).zone_lower,
     timeframe |-> timeframe, status |-> status, breach_price |-> 0]

\* collection.find(query): the documents equal to the query on each of its keys,
\* in insertion order
Matches(doc, query) == \A f \in DOMAIN query : doc[f] = query[f]

RECURSIVE Find(_, _, _)
Find(coll, query, i) ==
    IF i > Len(coll) THEN <<>>
    ELSE (IF Matches(coll[i], query) THEN <<coll[i]>> ELSE <<>>)
         \o Find(coll, query, i + 1)

Reverse(s) == [i \in 1..Len(s) |-> s[Len(s) + 1 - i]]

\* insert_one: the store assigns the next ObjectId
create_zone(coll, zone) == Append(coll, [zone EXCEPT !.id = Oid(Len(coll) + 1)])

\* VRZRepository.get_active_zones; zone_type "" stands for None.  created_at
\* grows with the insertion order, so sort('created_at', -1) reverses it.
vrz_repository_get_active_zones(coll, symbol, timeframe, zone_type) ==
    LET query == IF zone_type # ""
                 THEN [symbol |-> symbol, timeframe |-> timeframe,
                       status |-> ZONE_STATUS_ACTIVE, type |-> zone_type]
                 ELSE [symbol |-> symbol, timeframe |-> timeframe,
                       status |-> ZONE_STATUS_ACTIVE]
    IN  Reverse(Find(coll, query, 1))

WithDistance(zone, price) ==
    [f \in DOMAIN zone \cup {"distance"} |->
        IF f = "distance" THEN Abs(zone.price_level - price) ELSE zone[f]]

\* sorted(zones, key=distance): stable, equal keys keep their order
RECURSIVE sorted_by_distance(_)
sorted_by_distance(zs) ==
    IF zs = <<>> THEN <<>>
    ELSE LET m == CHOOSE i \in DOMAIN zs : \A j \in DOMAIN zs :
                     \/ zs[i].distance < zs[j].distance
                     \/ zs[i].distance = zs[j].distance /\ i <= j
         IN  <<zs[m]>> \o sorted_by_distance(
                 [k \in 1..(Len(zs) - 1) |-> IF k < m THEN zs[k] ELSE zs[k + 1]])

Head_n(s, n) == [i \in 1..(IF Len(s) < n THEN Len(s) ELSE n) |-> s[i]]

\* mutant: the query does not ask for the status
get_nearest_zones_any_status(coll, symbol, timeframe, price, zone_type, limit) ==
    LET query == [symbol |-> symbol, timeframe |-> timeframe, type |-> zone_type]
        found == Find(coll, query, 1)
    IN  Head_n(sorted_by_distance(
            [k \in DOMAIN found |-> WithDistance(found[k], price)]), limit)

get_nearest_zones(coll, symbol, timeframe, price, zone_type, limit) ==
    LET query == [symbol |-> symbol, timeframe |-> timeframe,
                  status |-> ZONE_STATUS_ACTIVE, type |-> zone_type]
        found == Find(coll, query, 1)
    IN  Head_n(sorted_by_distance(
            [k \in DOMAIN found |-> WithDistance(found[k], price)]), limit)

\* update_one({'_id': zone_id}, ...): the filter carries zone_id as it was given
invalidate_zone(coll, zone_id, breach_details) ==
    LET i == FindOne(coll, zone_id)
    IN  IF i = 0 THEN coll
        ELSE [coll EXCEPT ![i].status = ZONE_STATUS_INVALIDATED,
                          ![i].breach_price = breach_details.breach_price]

\* lines 67-72 of check_and_invalidate
Breached(zone, current_candle) ==
    IF zone.type = ZONE_TYPE_RESISTANCE
    THEN current_candle.high > zone.zone_upper
    ELSE current_candle.low < zone.zone_lower

\* lines 64-80: the body of 'for zone in active_zones' for one zone
check_and_invalidate_zone(coll, zone, current_candle) ==
    IF Breached(zone, current_candle)
    THEN invalidate_zone(coll, Str(zone.id),
                         [breach_price |-> current_candle.close,
                          breach_timeframe |-> zone.timeframe])
    ELSE coll

RECURSIVE SelectZones(_, _, _, _)
SelectZones(zs, above, price, i) ==
    IF i > Len(zs) THEN <<>>
    ELSE (IF (above /\ zs[i].zone_lower > price)
             \/ (~above /\ zs[i].zone_upper < price)
          THEN <<zs[i]>> ELSE <<>>)
         \o SelectZones(zs, above, price, i + 1)

\* VRZCalculator.get_active_zones
vrz_calculator_get_active_zones(coll, symbol, price, max_zones) ==
    [resistance_zones |->
        Head_n(SelectZones(get_nearest_zones(coll, symbol, base_timeframe, price,
                                             ZONE_TYPE_RESISTANCE, max_zones),
                           TRUE, price, 1), max_zones),
     support_zones |->
        Head_n(SelectZones(get_nearest_zones(coll, symbol, base_timeframe, price,
                                             ZONE_TYPE_SUPPORT, max_zones),
                           FALSE, price, 1), max_zones)]

\* VRZCalculator.is_price_near_zone with proximity_percent in tenths of a percent
is_price_near_zone(price, zone, proximity_percent_x10) ==
    LET proximity_buffer == (zone.price_level * proximity_percent_x10) \div 1000
    IN  /\ zone.zone_lower - proximity_buffer <= price
        /\ price <= zone.zone_upper + proximity_buffer

----------------------------------------------------------------------------
(* The zone store and the calls made on it *)

Symbols == {"BTCUSD", "ETHUSD"}
Timeframes == {base_timeframe, trading_timeframe}
ZoneTypes == {ZONE_TYPE_RESISTANCE, ZONE_TYPE_SUPPORT}
ZoneLevels == {1000000, 1010000}
CreatedLevel == CHOOSE lv \in ZoneLevels : \A other \in ZoneLevels : lv <= other
QueryPrices == {996000, 1004000}

\* candles around the bounds 997000 / 1003000 of a zone at 1000000
Candles ==
    {[high |-> h, low |-> l, close |-> 1000000] :
        h \in {1003000, 1004000}, l \in {996000, 997000}}

\* documents found in the store when the program starts
StoredZones ==
    {VRZZone(Oid(0), s, ty, lv, base_timeframe, st) :
        s \in Symbols, ty \in ZoneTypes, lv \in ZoneLevels,
        st \in {ZONE_STATUS_ACTIVE, ZONE_STATUS_INVALIDATED}}

RECURSIVE InsertAll(_, _)
InsertAll(coll, docs) ==
    IF docs = <<>> THEN coll
    ELSE InsertAll(create_zone(coll, Head(docs)), Tail(docs))

InitZone ==
    /\ \E n \in 0..MaxZones : \E docs \in [1..n -> StoredZones] :
          zones = InsertAll(<<>>, docs)
    /\ zone_query = NoQuery
    /\ check_pc = "idle"
    /\ check_args = NoCheck
    /\ active_zones = <<>>
    /\ zone_idx = 1
    /\ ExitIdle
    /\ CallsIdle
    /\ AppIdle

\* calculate_entry_timeframe_vrz stores a zone of the trading timeframe for a swing
CreateZone ==
    /\ Len(zones) < MaxZones
    /\ \E symbol \in Symbols, type \in ZoneTypes :
          zones' = create_zone(zones, VRZZone(Oid(0), symbol, type, CreatedLevel,
                                              trading_timeframe, ZONE_STATUS_ACTIVE))
    /\ UNCHANGED <<zone_query, check_pc, check_args, active_zones, zone_idx>>
    /\ UNCHANGED <<exitVars, callVars, appVars>>

\* a client of the store makes one call at a time
NoCallInFlight == check_pc = "idle" /\ zone_query = NoQuery

RepositoryGetActiveZones ==
    /\ NoCallInFlight
    /\ \E symbol \in Symbols, timeframe \in Timeframes, zone_type \in ZoneTypes \cup {""} :
          zone_query' = [op |-> "vrz_repository.get_active_zones", symbol |-> symbol,
                         timeframe |-> timeframe, zone_type |-> zone_type,
                         price |-> 0, limit |-> 0,
                         result |-> vrz_repository_get_active_zones(zones, symbol,
                                                                    timeframe, zone_type)]
    /\ UNCHANGED <<zones, check_pc, check_args, active_zones, zone_idx>>
    /\ UNCHANGED <<exitVars, callVars, appVars>>

GetNearestZones ==
    /\ NoCallInFlight
    /\ \E symbol \in Symbols, timeframe \in Timeframes, price \in QueryPrices,
          zone_type \in ZoneTypes, limit \in 1..MaxZones :
          zone_query' = [op |-> "get_nearest_zones", symbol |-> symbol,
                         timeframe |-> timeframe, zone_type |-> zone_type,
                         price |-> price, limit |-> limit,
                         result |-> get_nearest_zones(zones, symbol, timeframe,
                                                      price, zone_type, limit)]
    /\ UNCHANGED <<zones, check_pc, check_args, active_zones, zone_idx>>
    /\ UNCHANGED <<exitVars, callVars, appVars>>

CalculatorGetActiveZones ==
    /\ NoCallInFlight
    /\ \E symbol \in Symbols, price \in QueryPrices, max_zones \in 1..MaxZones :
          LET r == vrz_calculator_get_active_zones(zones, symbol, price, max_zones)
          IN  zone_query' = [op |-> "vrz_calculator.get_active_zones", symbol |-> symbol,
                             timeframe |-> base_timeframe, zone_type |-> "",
                             price |-> price, limit |-> max_zones,
                             result |-> r.resistance_zones \o r.support_zones]
    /\ UNCHANGED <<zones, check_pc, check_args, active_zones, zone_idx>>
    /\ UNCHANGED <<exitVars, callVars, appVars>>

\* the caller has used the result of its query
QueryReturn ==
    /\ zone_query # NoQuery
    /\ zone_query' = NoQuery
    /\ UNCHANGED <<zones, check_pc, check_args, active_zones, zone_idx>>
    /\ UNCHANGED <<exitVars, callVars, appVars>>

\* line 62: the active zones of the symbol are read
CheckAndInvalidateBegin ==
    /\ NoCallInFlight
    /\ \E symbol \in Symbols, current_candle \in Candles :
          /\ check_args' = [symbol |-> symbol, current_candle |-> current_candle]
          /\ active_zones' = Find(zones, [symbol |-> symbol,
                                          status |-> ZONE_STATUS_ACTIVE], 1)
    /\ zone_idx' = 1
    /\ check_pc' = "loop"
    /\ UNCHANGED <<zones, zone_query>>
    /\ UNCHANGED <<exitVars, callVars, appVars>>

\* lines 64-80: one zone of the list is examined
CheckAndInvalidateZone ==
    /\ check_pc = "loop"
    /\ zone_idx <= Len(active_zones)
    /\ zones' = check_and_invalidate_zone(zones, active_zones[zone_idx],
                                          check_args.current_candle)
    /\ zone_idx' = zone_idx + 1
    /\ UNCHANGED <<zone_query, check_pc, check_args, active_zones>>
    /\ UNCHANGED <<exitVars, callVars, appVars>>

\* the list is exhausted: check_and_invalidate returns
CheckAndInvalidateEnd ==
    /\ check_pc = "loop"
    /\ zone_idx > Len(active_zones)
    /\ check_pc' = "idle"
    /\ check_args' = NoCheck
    /\ active_zones' = <<>>
    /\ zone_idx' = 1
    /\ UNCHANGED <<zones, zone_query>>
    /\ UNCHANGED <<exitVars, callVars, appVars>>

NextZone ==
    \/ CreateZone
    \/ RepositoryGetActiveZones
    \/ GetNearestZones
    \/ CalculatorGetActiveZones
    \/ QueryReturn
    \/ CheckAndInvalidateBegin
    \/ CheckAndInvalidateZone
    \/ CheckAndInvalidateEnd

\* the zone store, the calls of one client and the zones a scan creates meanwhile
SpecZone == InitZone /\ [][NextZone]_vars

----------------------------------------------------------------------------
(* PositionManager.sync_with_exchange *)

\* mutant: the exchange size is taken with its sign
exchange_size_signed(ex_pos) == ex_pos.size

\* line 265: abs(int(ex_pos.get('size', 0))); the exchange reports integer sizes,
\* negative for short positions
exchange_size(ex_pos) == Abs(ex_pos.size)

\* lines 259-261, 275: index of the first exchange position of the product, 0 if none
FirstExchangePosition(exchange_positions, product_id) ==
    IF \E k \in DOMAIN exchange_positions : exchange_positions[k].product_id = product_id
    THEN CHOOSE k \in DOMAIN exchange_positions :
            /\ exchange_positions[k].product_id = product_id
            /\ \A j \in DOMAIN exchange_positions :
                  exchange_positions[j].product_id = product_id => k <= j
    ELSE 0

\* lines 256-282: what one local position adds to the discrepancies
LocalDiscrepancies(local_pos, exchange_positions) ==
    LET k == FirstExchangePosition(exchange_positions, local_pos.product_id)
    IN  IF k = 0
        THEN <<[type |-> "missing_on_exchange", position_id |-> Str(local_pos.id)]>>
        ELSE IF local_pos.remaining_size # exchange_size(exchange_positions[k])
        THEN <<[type |-> "size_mismatch", position_id |-> Str(local_pos.id),
                local_size |-> local_pos.remaining_size,
                exchange_size |-> exchange_size(exchange_positions[k])]>>
        ELSE <<>>

RECURSIVE Discrepancies(_, _, _)
Discrepancies(local_positions, exchange_positions, i) ==
    IF i > Len(local_positions) THEN <<>>
    ELSE LocalDiscrepancies(local_positions[i], exchange_positions)
         \o Discrepancies(local_positions, exchange_positions, i + 1)

sync_with_exchange(coll, exchange_positions, telegram_user_id) ==
    Discrepancies(get_open_positions(coll, telegram_user_id), exchange_positions, 1)

Users == {1, 2}
Products == {1, 2}
LocalSizes == {3, 5}
ExchangeSizes == {0 - 5, 0 - 3, 0, 3, 5}

\* positions of the trades collection: open with their full size, or closed
LocalPositions ==
    LET opened(u, pr, n) ==
            create_position(Oid(0), [EntrySignalFor(SIDE_BUY, n, 1) EXCEPT
                                        !.telegram_user_id = u, !.product_id = pr],
                            OrderAccepted(pr))
    IN  {opened(u, pr, n) : u \in Users, pr \in Products, n \in LocalSizes}
        \cup {ClosedDocument(opened(u, pr, 3)) : u \in Users, pr \in Products}

\* what delta_client.get_positions() returns: at most one position per product
ExchangeLists ==
    LET ExPos == [product_id : Products, size : ExchangeSizes]
    IN  UNION {{l \in [1..n -> ExPos] :
                   \A a, b \in 1..n : a # b => l[a].product_id # l[b].product_id} :
               n \in 0..Cardinality(Products)}

InitSync ==
    /\ \E n \in 0..MaxPositions : \E docs \in [1..n -> LocalPositions] :
          trades = [k \in 1..n |-> [docs[k] EXCEPT !.id = Oid(k)]]
    /\ loop_pc = "idle"
    /\ open_positions = <<>>
    /\ pos_idx = 1
    /\ current_price = 0
    /\ exit_result = <<>>
    /\ action_idx = 1
    /\ order_responses = NoResponses
    /\ orders = <<>>
    /\ close_pc = "idle"
    /\ close_id = Str(Oid(1))
    /\ ZoneIdle
    /\ CallsIdle
    /\ AppIdle

\* lines 245-287: both reads succeed and the discrepancies are returned
SyncWithExchange ==
    /\ sync_result = NoSync
    /\ \E telegram_user_id \in Users, exchange_positions \in ExchangeLists :
          sync_result' = [op |-> "sync_with_exchange",
                          telegram_user_id |-> telegram_user_id,
                          exchange_positions |-> exchange_positions,
                          failed |-> FALSE,
                          discrepancies |-> sync_with_exchange(trades, exchange_positions,
                                                               telegram_user_id)]
    /\ UNCHANGED <<exitVars, zoneVars, scan_result, fn_call, appVars>>

\* a read fails. Lines 247, 289-291: get_positions raises and the handler returns
\* []; or lines 250, 108-110: the find of get_open_positions raises, it returns []
\* and the loop of line 255 has nothing to compare
SyncWithExchangeError ==
    /\ sync_result = NoSync
    /\ \E telegram_user_id \in Users, exchange_positions \in ExchangeLists :
          sync_result' = [op |-> "sync_with_exchange",
                          telegram_user_id |-> telegram_user_id,
                          exchange_positions |-> exchange_positions,
                          failed |-> TRUE,
                          discrepancies |-> <<>>]
    /\ UNCHANGED <<exitVars, zoneVars, scan_result, fn_call, appVars>>

\* the caller has reported the result
SyncReturn ==
    /\ sync_result # NoSync
    /\ sync_result' = NoSync
    /\ UNCHANGED <<exitVars, zoneVars, scan_result, fn_call, appVars>>

NextSync ==
    \/ SyncWithExchange
    \/ SyncWithExchangeError
    \/ SyncReturn

\* reconciliation calls on a trades collection
SpecSync == InitSync /\ [][NextSync]_vars

----------------------------------------------------------------------------
(* strategies/pattern_detector.py, strategies/risk_manager.py and           *)
(* trading/entry_engine.py: the entry scan                                  *)

\* the detectors in the order scan_all_patterns runs them, each with the direction
\* and the confidence (in hundredths) of the pattern it reports
PatternTable ==
    <<[pattern_name |-> "bullish_engulfing", direction |-> "bullish", confidence |-> 75],
      [pattern_name |-> "bearish_engulfing", direction |-> "bearish", confidence |-> 75],
      [pattern_name |-> "piercing_line", direction |-> "bullish", confidence |-> 70],
      [pattern_name |-> "dark_cloud_cover", direction |-> "bearish", confidence |-> 70],
      [pattern_name |-> "bullish_harami", direction |-> "bullish", confidence |-> 65],
      [pattern_name |-> "bearish_harami", direction |-> "bearish", confidence |-> 65],
      [pattern_name |-> "tweezer_bottom", direction |-> "bullish", confidence |-> 60],
      [pattern_name |-> "tweezer_top", direction |-> "bearish", confidence |-> 60],
      [pattern_name |-> "morning_star", direction |-> "bullish", confidence |-> 80],
      [pattern_name |-> "evening_star", direction |-> "bearish", confidence |-> 80],
      [pattern_name |-> "three_white_soldiers", direction |-> "bullish", confidence |-> 85],
      [pattern_name |-> "three_black_crows", direction |-> "bearish", confidence |-> 85],
      [pattern_name |-> "three_outside_up", direction |-> "bullish", confidence |-> 78],
      [pattern_name |-> "three_outside_down", direction |-> "bearish", confidence |-> 78],
      [pattern_name |-> "abandoned_baby_bullish", direction |-> "bullish", confidence |-> 90],
      [pattern_name |-> "abandoned_baby_bearish", direction |-> "bearish", confidence |-> 90],
      [pattern_name |-> "hammer", direction |-> "bullish", confidence |-> 70],
      [pattern_name |-> "inverted_hammer", direction |-> "bullish", confidence |-> 65],
      [pattern_name |-> "hanging_man", direction |-> "bearish", confidence |-> 70],
      [pattern_name |-> "shooting_star", direction |-> "bearish", confidence |-> 70]>>

\* scan_all_patterns: the patterns of the detectors that fired, in detector order;
\* pattern_high and pattern_low are taken from the candles of the pattern
RECURSIVE scan_all_patterns(_, _, _, _)
scan_all_patterns(detected, pattern_high, pattern_low, d) ==
    IF d > Len(PatternTable) THEN <<>>
    ELSE (IF d \in detected
          THEN <<[pattern_name |-> PatternTable[d].pattern_name,
                  direction |-> PatternTable[d].direction,
                  confidence |-> PatternTable[d].confidence,
                  pattern_high |-> pattern_high, pattern_low |-> pattern_low]>>
          ELSE <<>>)
         \o scan_all_patterns(detected, pattern_high, pattern_low, d + 1)

\* mutant: the last pattern of the greatest confidence
best_of_last(patterns) ==
    patterns[CHOOSE i \in DOMAIN patterns : \A j \in DOMAIN patterns :
                \/ patterns[i].confidence > patterns[j].confidence
                \/ patterns[i].confidence = patterns[j].confidence /\ i >= j]

\* max(patterns, key=confidence): the first pattern of the greatest confidence
best_of(patterns) ==
    patterns[CHOOSE i \in DOMAIN patterns : \A j \in DOMAIN patterns :
                \/ patterns[i].confidence > patterns[j].confidence
                \/ patterns[i].confidence = patterns[j].confidence /\ i <= j]

\* pip_value = entry_price * 0.0001 * stop_pips
calculate_stop_loss(entry_price, side, pattern_high, pattern_low, stop_pips) ==
    LET pip_value == (entry_price * stop_pips) \div 10000
    IN  IF side = SIDE_BUY THEN pattern_low - pip_value ELSE pattern_high + pip_value

\* settings.MIN_RISK_REWARD_RATIO = 1.5, carried as 2*r
MIN_RISK_REWARD_RATIO_X2 == 3

\* mutant: the ratio is not compared with the minimum
validate_trade_setup_any_rr(entry_price, stop_loss, target_price, side) ==
    IF side = SIDE_BUY
    THEN stop_loss < entry_price /\ target_price > entry_price
    ELSE stop_loss > entry_price /\ target_price < entry_price

\* validate_trade_setup: is_valid.  rr_ratio < min_risk_reward is compared on
\* 2 * reward and 2 * min * risk; a zero risk gives the ratio 0.0
validate_trade_setup(entry_price, stop_loss, target_price, side) ==
    LET risk == Abs(entry_price - stop_loss)
        reward == Abs(target_price - entry_price)
    IN  /\ risk # 0
        /\ 2 * reward >= MIN_RISK_REWARD_RATIO_X2 * risk
        /\ IF side = SIDE_BUY
           THEN stop_loss < entry_price /\ target_price > entry_price
           ELSE stop_loss > entry_price /\ target_price < entry_price

\* default of user_settings.get('max_vrz_zones', 3)
max_vrz_zones == 3

\* default of user_settings.get('stop_loss_pips', 10)
stop_loss_pips == 10

RECURSIVE _find_nearby_zone(_, _, _)
_find_nearby_zone(price, zs, i) ==
    IF i > Len(zs) THEN None
    ELSE IF is_price_near_zone(price, zs[i], 5) THEN zs[i]
    ELSE _find_nearby_zone(price, zs, i + 1)

\* lines 176-258 of _create_long_signal and 288-370 of _create_short_signal,
\* without the zones stored meanwhile: entry_zone is the nearby zone, target_zones
\* the zones of the opposite type
create_signal(side, symbol, price, pattern, entry_zone, target_zones, target_type) ==
    LET stop_loss == calculate_stop_loss(price, side, pattern.pattern_high,
                                         pattern.pattern_low, stop_loss_pips)
        targets == IF target_type = "zone"
                   THEN calculate_multiple_targets(price, stop_loss, side, "zone", <<>>,
                                                   Head_n(target_zones, max_vrz_zones))
                   ELSE calculate_multiple_targets(price, stop_loss, side, "rr",
                                                   TargetLevels(MaxTargets), <<>>)
    IN  IF targets = <<>> THEN None
        ELSE IF ~validate_trade_setup(price, stop_loss, targets[1].price, side) THEN None
        ELSE [symbol |-> symbol, product_id |-> 1, side |-> side,
              entry_price |-> price, stop_loss |-> stop_loss, targets |-> targets,
              pattern |-> pattern.pattern_name, entry_zone |-> entry_zone,
              lot_size |-> 1]

_create_long_signal(symbol, price, pattern, entry_zone, support_zones, resistance_zones, target_type) ==
    create_signal(SIDE_BUY, symbol, price, pattern, entry_zone, resistance_zones,
                  target_type)

_create_short_signal(symbol, price, pattern, entry_zone, resistance_zones, support_zones, target_type) ==
    create_signal(SIDE_SELL, symbol, price, pattern, entry_zone, support_zones,
                  target_type)

\* mutant: the direction of the pattern decides, whichever zone is near
entry_side_any_zone(best_pattern, near_resistance, near_support) ==
    IF best_pattern.direction = "bullish" THEN SIDE_BUY ELSE SIDE_SELL

\* lines 113-125: which signal the pairing of pattern and zone asks for
entry_side(best_pattern, near_resistance, near_support) ==
    IF best_pattern.direction = "bullish" /\ near_support # None THEN SIDE_BUY
    ELSE IF best_pattern.direction = "bearish" /\ near_resistance # None THEN SIDE_SELL
    ELSE "none"

\* scan_for_entry_signals from line 67 on: what the scan reads and returns
scan_for_entry_signals(coll, symbol, price, detected, pattern_high, pattern_low, target_type) ==
    LET vrz_zones == vrz_calculator_get_active_zones(coll, symbol, price, max_vrz_zones)
        resistance_zones == vrz_zones.resistance_zones
        support_zones == vrz_zones.support_zones
        near_resistance == _find_nearby_zone(price, resistance_zones, 1)
        near_support == _find_nearby_zone(price, support_zones, 1)
        searched == near_resistance # None \/ near_support # None
        patterns == IF searched
                    THEN scan_all_patterns(detected, pattern_high, pattern_low, 1)
                    ELSE <<>>
        best_pattern == IF patterns # <<>> THEN best_of(patterns) ELSE None
        side == IF patterns # <<>>
                THEN entry_side(best_pattern, near_resistance, near_support)
                ELSE "none"
    IN  [symbol |-> symbol, current_price |-> price,
         near_resistance |-> near_resistance, near_support |-> near_support,
         patterns |-> patterns, best_pattern |-> best_pattern,
         creates_signal |-> side # "none",
         signal |-> IF side = SIDE_BUY
                    THEN _create_long_signal(symbol, price, best_pattern, near_support,
                                             support_zones, resistance_zones, target_type)
                    ELSE IF side = SIDE_SELL
                    THEN _create_short_signal(symbol, price, best_pattern,
                                              near_resistance, resistance_zones,
                                              support_zones, target_type)
                    ELSE None]

\* the sets of detectors that fire together at one candle
RECURSIVE DetectedUpTo(_)
DetectedUpTo(n) ==
    IF n = 0 THEN {{}}
    ELSE DetectedUpTo(n - 1)
         \cup {S \cup {d} : S \in DetectedUpTo(n - 1), d \in DOMAIN PatternTable}

DetectedSets == DetectedUpTo(MaxPatterns)

ScanPrices == {996000, 1004000}

\* distance of the pattern's high and low from the close of the last candle
PatternRanges == {0, 4000}

\* swings of the trading timeframe for which calculate_entry_timeframe_vrz stores
\* zones while a signal is built
SwingZones ==
    {<<>>} \cup {<<VRZZone(Oid(0), "BTCUSD", ty, CreatedLevel, trading_timeframe,
                           ZONE_STATUS_ACTIVE)>> : ty \in ZoneTypes}

\* zone stores met by a scan: a support zone under and a resistance zone over the
\* scanned prices, each absent, active or invalidated
EntryStores ==
    LET docs(ty, lv) == {<<>>} \cup {<<VRZZone(Oid(0), "BTCUSD", ty, lv,
                                              base_timeframe, st)>> :
                                       st \in {ZONE_STATUS_ACTIVE,
                                               ZONE_STATUS_INVALIDATED}}
    IN  {InsertAll(<<>>, a \o b) : a \in docs(ZONE_TYPE_SUPPORT, 1000000),
                                   b \in docs(ZONE_TYPE_RESISTANCE, 1010000)}
        \cup {InsertAll(<<>>, a) : a \in docs(ZONE_TYPE_RESISTANCE, 1000000)}

InitEntry ==
    /\ zones \in EntryStores
    /\ zone_query = NoQuery
    /\ check_pc = "idle"
    /\ check_args = NoCheck
    /\ active_zones = <<>>
    /\ zone_idx = 1
    /\ ExitIdle
    /\ CallsIdle
    /\ AppIdle

\* lines 56-65: fewer than 10 candles were fetched
ScanInsufficientCandles ==
    /\ scan_result = NoScan
    /\ \E symbol \in Symbols :
          scan_result' = [symbol |-> symbol, current_price |-> 0,
                          near_resistance |-> None, near_support |-> None,
                          patterns |-> <<>>, best_pattern |-> None,
                          creates_signal |-> FALSE, signal |-> None]
    /\ UNCHANGED <<exitVars, zoneVars, sync_result, fn_call, appVars>>

\* lines 67-130: the scan of one asset, with the zones calculate_entry_timeframe_vrz
\* stores when a long or short signal is built
ScanForEntrySignals ==
    /\ scan_result = NoScan
    /\ \E symbol \in Symbols, price \in ScanPrices, detected \in DetectedSets,
          range \in PatternRanges, target_type \in {"rr", "zone"},
          swings \in SwingZones :
          LET r == scan_for_entry_signals(zones, symbol, price, detected,
                                          price + range, price - range, target_type)
          IN  /\ Len(zones) + Len(swings) <= MaxZones
              /\ ~r.creates_signal => swings = <<>>
              /\ scan_result' = r
              /\ zones' = InsertAll(zones, [k \in DOMAIN swings |->
                                               [swings[k] EXCEPT !.symbol = symbol]])
    /\ UNCHANGED <<zone_query, check_pc, check_args, active_zones, zone_idx>>
    /\ UNCHANGED <<exitVars, sync_result, fn_call, appVars>>

\* main.py lines 129-136: the loop has used the signal
ScanReturn ==
    /\ scan_result # NoScan
    /\ scan_result' = NoScan
    /\ UNCHANGED <<exitVars, zoneVars, sync_result, fn_call, appVars>>

NextEntry ==
    \/ ScanInsufficientCandles
    \/ ScanForEntrySignals
    \/ ScanReturn

\* entry scans on a zone store
SpecEntry == InitEntry /\ [][NextEntry]_vars

----------------------------------------------------------------------------
(* main.py: TradingBotApp.trading_loop, start and stop.  The loop is followed *)
(* from await to await; what manage_exits does with a position is the subject *)
(* of the exit processing above and is not repeated here.                     *)

MaxUsers == 2         \* active users returned by get_all_active_users

\* the response of place_order for an order the exchange refused
OrderRefused == [success |-> FALSE, result |-> [id |-> 0]]

\* user_settings documents: the asset selection of a user
UserSettings(telegram_user_id, asset_selection_mode) ==
    [telegram_user_id |-> telegram_user_id,
     asset_selection_mode |-> asset_selection_mode,
     selected_assets |-> <<"BTCUSD", "ETHUSD">>]

\* what get_all_active_users can return: users 1..n, each with its selection mode
ActiveUserLists ==
    UNION {{[k \in 1..n |-> UserSettings(k, modes[k])] :
               modes \in [1..n -> {"individual", "top_gainers"}]} : n \in 0..MaxUsers}

\* movers['top_gainers'] of a successful get_top_movers
TopGainers == <<[symbol |-> "BTCUSD", product_id |-> 1]>>

\* line 117: assets = [{'symbol': s} for s in selected_assets]
IndividualAssets(user_settings) ==
    [k \in DOMAIN user_settings.selected_assets |->
        [symbol |-> user_settings.selected_assets[k], product_id |-> 0]]

\* the signal a scan returns in this part of the model: a long entry of one lot
\* with one target, for the symbol and product scanned; the loop does not look into it
AppSignals ==
    {[EntrySignalFor(SIDE_BUY, 1, 1) EXCEPT !.telegram_user_id = 0]}

\* mutant: the handler of the iteration catches nothing
raise_in_iteration_uncaught(exc) ==
    IF exc = "CancelledError" THEN "cancelled" ELSE "crashed"

\* where an exception raised inside the 'try' of lines 88-173 takes the task:
\* 'except Exception' of line 175 catches it and sleeps; CancelledError is a
\* BaseException and passes both handlers, ending the task
raise_in_iteration(exc) ==
    IF exc = "CancelledError" THEN "cancelled" ELSE "except"

\* the state after TradingBotApp.start(): running is set and the task is created
InitApp ==
    /\ running = TRUE
    /\ cancel_requested = FALSE
    /\ app_pc = "while"
    /\ active_users = <<>>
    /\ user_idx = 1
    /\ assets = <<>>
    /\ asset_idx = 1
    /\ signal = None
    /\ order_response = None
    /\ acknowledged = {}
    /\ attempted = {}
    /\ ExitIdle
    /\ ZoneIdle
    /\ CallsIdle

UserSettingsNow == active_users[user_idx]

Asset == assets[asset_idx]

\* the task runs on only while no cancellation is pending: a pending one is
\* delivered as CancelledError at the await the task is suspended in
TaskRuns == ~cancel_requested

\* lines 87-90: while self.running: active_users = await get_all_active_users()
AppGetActiveUsers ==
    /\ TaskRuns
    /\ app_pc = "while"
    /\ running
    /\ active_users' \in ActiveUserLists
    /\ user_idx' = 1
    /\ attempted' = {}
    /\ app_pc' = "user"
    /\ UNCHANGED <<running, cancel_requested, assets, asset_idx, signal,
                   order_response, acknowledged>>
    /\ UNCHANGED <<exitVars, zoneVars, callVars>>

\* lines 92-120 for a user with individually selected assets
AppUserIndividual ==
    /\ TaskRuns
    /\ app_pc = "user"
    /\ user_idx <= Len(active_users)
    /\ UserSettingsNow.asset_selection_mode = "individual"
    /\ attempted' = attempted \cup {<<"user", UserSettingsNow.telegram_user_id>>}
    /\ assets' = IndividualAssets(UserSettingsNow)
    /\ asset_idx' = 1
    /\ app_pc' = "asset"
    /\ UNCHANGED <<running, cancel_requested, active_users, user_idx, signal,
                   order_response, acknowledged>>
    /\ UNCHANGED <<exitVars, zoneVars, callVars>>

\* lines 100-103: movers = await delta_client.get_top_movers(limit=10) returns
AppUserTopMovers ==
    /\ TaskRuns
    /\ app_pc = "user"
    /\ user_idx <= Len(active_users)
    /\ UserSettingsNow.asset_selection_mode = "top_gainers"
    /\ attempted' = attempted \cup {<<"user", UserSettingsNow.telegram_user_id>>}
    /\ assets' = TopGainers
    /\ asset_idx' = 1
    /\ app_pc' = "asset"
    /\ UNCHANGED <<running, cancel_requested, active_users, user_idx, signal,
                   order_response, acknowledged>>
    /\ UNCHANGED <<exitVars, zoneVars, callVars>>

\* lines 100-103: get_top_movers raises (delta_client._request re-raises)
AppUserTopMoversError ==
    /\ TaskRuns
    /\ app_pc = "user"
    /\ user_idx <= Len(active_users)
    /\ UserSettingsNow.asset_selection_mode = "top_gainers"
    /\ attempted' = attempted \cup {<<"user", UserSettingsNow.telegram_user_id>>}
    /\ app_pc' = raise_in_iteration("Exception")
    /\ UNCHANGED <<running, cancel_requested, active_users, user_idx, assets,
                   asset_idx, signal, order_response, acknowledged>>
    /\ UNCHANGED <<exitVars, zoneVars, callVars>>

\* lines 122-129: the scan of an asset returns None (also when it fails: the scan
\* catches its exceptions) and the loop goes to the next asset
AppScanNoSignal ==
    /\ TaskRuns
    /\ app_pc = "asset"
    /\ asset_idx <= Len(assets)
    /\ attempted' = attempted \cup {<<"asset", UserSettingsNow.telegram_user_id,
                                      Asset.symbol>>}
    /\ asset_idx' = asset_idx + 1
    /\ UNCHANGED <<running, cancel_requested, app_pc, active_users, user_idx, assets,
                   signal, order_response, acknowledged>>
    /\ UNCHANGED <<exitVars, zoneVars, callVars>>

\* lines 127-131: the scan returns a signal and execute_entry is entered
AppScanSignal ==
    /\ TaskRuns
    /\ app_pc = "asset"
    /\ asset_idx <= Len(assets)
    /\ Cardinality(acknowledged) < MaxPositions
    /\ attempted' = attempted \cup {<<"asset", UserSettingsNow.telegram_user_id,
                                      Asset.symbol>>}
    /\ signal' \in {[s EXCEPT !.symbol = Asset.symbol, !.product_id = Asset.product_id] :
                      s \in AppSignals}
    /\ app_pc' = "execute"
    /\ UNCHANGED <<running, cancel_requested, active_users, user_idx, assets,
                   asset_idx, order_response, acknowledged>>
    /\ UNCHANGED <<exitVars, zoneVars, callVars>>

\* execute_entry, await delta_client.place_order(...): the request reaches the
\* exchange, which accepts the order or refuses it; the response is in flight
AppPlaceOrder ==
    /\ TaskRuns
    /\ app_pc = "execute"
    /\ \/ LET order_id == Cardinality(acknowledged) + 1
          IN  /\ acknowledged' = acknowledged \cup {order_id}
              /\ order_response' = OrderAccepted(order_id)
       \/ /\ order_response' = OrderRefused
          /\ UNCHANGED acknowledged
    /\ app_pc' = "order_sent"
    /\ UNCHANGED <<running, cancel_requested, active_users, user_idx, assets,
                   asset_idx, signal, attempted>>
    /\ UNCHANGED <<exitVars, zoneVars, callVars>>

\* execute_entry lines 405-410 and main.py lines 133-136: an accepted order is
\* returned and create_position is entered
AppOrderAccepted ==
    /\ TaskRuns
    /\ app_pc = "order_sent"
    /\ order_response.success
    /\ signal' = [signal EXCEPT !.telegram_user_id = UserSettingsNow.telegram_user_id]
    /\ app_pc' = "create"
    /\ UNCHANGED <<running, cancel_requested, active_users, user_idx, assets,
                   asset_idx, order_response, acknowledged, attempted>>
    /\ UNCHANGED <<exitVars, zoneVars, callVars>>

\* execute_entry lines 408-410: a refused order gives None; next asset
AppOrderRefused ==
    /\ TaskRuns
    /\ app_pc = "order_sent"
    /\ ~order_response.success
    /\ signal' = None
    /\ order_response' = None
    /\ asset_idx' = asset_idx + 1
    /\ app_pc' = "asset"
    /\ UNCHANGED <<running, cancel_requested, active_users, user_idx, assets,
                   acknowledged, attempted>>
    /\ UNCHANGED <<exitVars, zoneVars, callVars>>

\* the document create_position inserts for the signal and the order at hand
NewPosition == create_position(Oid(Len(trades) + 1), signal, order_response)

\* line 136: create_position inserts the trade document
AppCreatePosition ==
    /\ TaskRuns
    /\ app_pc = "create"
    /\ trades' = Append(trades, NewPosition)
    /\ signal' = None
    /\ order_response' = None
    /\ asset_idx' = asset_idx + 1
    /\ app_pc' = "asset"
    /\ UNCHANGED <<running, cancel_requested, active_users, user_idx, assets,
                   acknowledged, attempted>>
    /\ UNCHANGED <<loop_pc, open_positions, pos_idx, current_price, exit_result,
                   action_idx, order_responses, orders, close_pc, close_id>>
    /\ UNCHANGED <<zoneVars, callVars>>

\* line 136: insert_one raises; create_position logs it and returns None, and the
\* loop, which does not look at the returned value, goes to the next asset
AppCreatePositionError ==
    /\ TaskRuns
    /\ app_pc = "create"
    /\ signal' = None
    /\ order_response' = None
    /\ asset_idx' = asset_idx + 1
    /\ app_pc' = "asset"
    /\ UNCHANGED <<running, cancel_requested, active_users, user_idx, assets,
                   acknowledged, attempted>>
    /\ UNCHANGED <<exitVars, zoneVars, callVars>>

\* line 139: open_positions = await position_manager.get_open_positions(user_id)
AppGetOpenPositions ==
    /\ TaskRuns
    /\ app_pc = "asset"
    /\ asset_idx > Len(assets)
    /\ open_positions' = get_open_positions(trades, UserSettingsNow.telegram_user_id)
    /\ pos_idx' = 1
    /\ app_pc' = "position"
    /\ UNCHANGED <<running, cancel_requested, active_users, user_idx, assets,
                   asset_idx, signal, order_response, acknowledged, attempted>>
    /\ UNCHANGED <<trades, loop_pc, current_price, exit_result, action_idx,
                   order_responses, orders, close_pc, close_id>>
    /\ UNCHANGED <<zoneVars, callVars>>

\* lines 141-166: the candles of the position are fetched and its exits managed
AppPosition ==
    /\ TaskRuns
    /\ app_pc = "position"
    /\ pos_idx <= Len(open_positions)
    /\ attempted' = attempted \cup {<<"position", open_positions[pos_idx].id>>}
    /\ pos_idx' = pos_idx + 1
    /\ UNCHANGED <<running, cancel_requested, app_pc, active_users, user_idx, assets,
                   asset_idx, signal, order_response, acknowledged>>
    /\ UNCHANGED <<trades, loop_pc, open_positions, current_price, exit_result,
                   action_idx, order_responses, orders, close_pc, close_id>>
    /\ UNCHANGED <<zoneVars, callVars>>

\* lines 144-149: get_ohlc_candles raises (delta_client._request re-raises)
AppPositionError ==
    /\ TaskRuns
    /\ app_pc = "position"
    /\ pos_idx <= Len(open_positions)
    /\ attempted' = attempted \cup {<<"position", open_positions[pos_idx].id>>}
    /\ app_pc' = raise_in_iteration("Exception")
    /\ UNCHANGED <<running, cancel_requested, active_users, user_idx, assets,
                   asset_idx, signal, order_response, acknowledged>>
    /\ UNCHANGED <<exitVars, zoneVars, callVars>>

\* line 92: the positions of the user are done; next user
AppNextUser ==
    /\ TaskRuns
    /\ app_pc = "position"
    /\ pos_idx > Len(open_positions)
    /\ user_idx' = user_idx + 1
    /\ app_pc' = "user"
    /\ UNCHANGED <<running, cancel_requested, active_users, assets, asset_idx, signal,
                   order_response, acknowledged, attempted>>
    /\ UNCHANGED <<exitVars, zoneVars, callVars>>

\* lines 168-173: all users are done; health metrics, then await asyncio.sleep(60)
AppHealth ==
    /\ TaskRuns
    /\ app_pc = "user"
    /\ user_idx > Len(active_users)
    /\ app_pc' = "sleep"
    /\ UNCHANGED <<running, cancel_requested, active_users, user_idx, assets,
                   asset_idx, signal, order_response, acknowledged, attempted>>
    /\ UNCHANGED <<exitVars, zoneVars, callVars>>

\* line 173 or line 177: the sleep is over; back to 'while self.running'
AppSleep ==
    /\ TaskRuns
    /\ app_pc \in {"sleep", "except"}
    /\ app_pc' = "while"
    /\ UNCHANGED <<running, cancel_requested, active_users, user_idx, assets,
                   asset_idx, signal, order_response, acknowledged, attempted>>
    /\ UNCHANGED <<exitVars, zoneVars, callVars>>

AppSuspended ==
    app_pc \in {"while", "user", "asset", "execute", "order_sent", "create",
                "position", "sleep", "except"}

\* TradingBotApp.stop, lines 204-208: running = False; trading_task.cancel()
Stop ==
    /\ running
    /\ AppSuspended
    /\ running' = FALSE
    /\ cancel_requested' = TRUE
    /\ UNCHANGED <<app_pc, active_users, user_idx, assets, asset_idx, signal,
                   order_response, acknowledged, attempted>>
    /\ UNCHANGED <<exitVars, zoneVars, callVars>>

\* the cancellation is delivered at the await the task is suspended in; an insert
\* already handed to the driver may or may not have been carried out
AppCancelled ==
    /\ cancel_requested
    /\ AppSuspended
    /\ cancel_requested' = FALSE
    /\ app_pc' = raise_in_iteration("CancelledError")
    /\ \/ UNCHANGED trades
       \/ app_pc = "create" /\ trades' = Append(trades, NewPosition)
    /\ UNCHANGED <<running, active_users, user_idx, assets, asset_idx, signal,
                   order_response, acknowledged, attempted>>
    /\ UNCHANGED <<loop_pc, open_positions, pos_idx, current_price, exit_result,
                   action_idx, order_responses, orders, close_pc, close_id>>
    /\ UNCHANGED <<zoneVars, callVars>>

\* the steps of the trading task
AppLoop ==
    \/ AppGetActiveUsers
    \/ AppUserIndividual
    \/ AppUserTopMovers
    \/ AppUserTopMoversError
    \/ AppScanNoSignal
    \/ AppScanSignal
    \/ AppPlaceOrder
    \/ AppOrderAccepted
    \/ AppOrderRefused
    \/ AppCreatePosition
    \/ AppCreatePositionError
    \/ AppGetOpenPositions
    \/ AppPosition
    \/ AppPositionError
    \/ AppNextUser
    \/ AppHealth
    \/ AppSleep
    \/ AppCancelled

NextApp ==
    \/ AppLoop
    \/ Stop

\* the trading loop with a shutdown that may arrive at any await
SpecApp == InitApp /\ [][NextApp]_vars

\* the same with a fair event loop: a task that can run is run
SpecAppFair == SpecApp /\ WF_vars(AppLoop)

----------------------------------------------------------------------------
(* strategies/risk_manager.py: calls of the target and partial-exit functions *)

\* settings.RR_TARGET_OPTIONS = [1.5, 2.0, 2.5, 3.0, 3.5, 4.0], carried as 2*r
RR_TARGET_OPTIONS == <<3, 4, 5, 6, 7, 8>>

\* lists of ratios a user can store as target_levels: the first n options
TargetLevelLists == {SubSeq(RR_TARGET_OPTIONS, 1, n) : n \in 1..Len(RR_TARGET_OPTIONS)}

\* lists of target zones beyond an entry at 1004000: n zones, the nearest first
TargetZoneLists(side) ==
    {[k \in 1..n |->
        VRZZone(Oid(k), "BTCUSD",
                IF side = SIDE_BUY THEN ZONE_TYPE_RESISTANCE ELSE ZONE_TYPE_SUPPORT,
                IF side = SIDE_BUY THEN 1000000 + 10000 * k ELSE 1000000 - 10000 * k,
                base_timeframe, ZONE_STATUS_ACTIVE)] : n \in 1..MaxTargets}

\* position sizes for which the quantities of the partial exits are computed
PartialExitSizes == (1..MaxSize) \cup {10, 100}

\* qty = max(1, int(position_size * (percentage / 100)))
PartialQuantity(position_size, percentage) ==
    Max(1, (position_size * percentage) \div 100)

RECURSIVE SumQuantities(_, _)
SumQuantities(quantities, k) ==
    IF k > Len(quantities) THEN 0
    ELSE quantities[k] + SumQuantities(quantities, k + 1)

\* mutant: the last target takes its percentage like the others
calculate_partial_exits_by_percentage(position_size, num_targets) ==
    LET percentages == PARTIAL_EXIT_PERCENTAGES(num_targets)
    IN  [i \in 1..Len(percentages) |-> PartialQuantity(position_size, percentages[i])]

\* calculate_partial_exits: the last target gets all that remains
calculate_partial_exits(position_size, num_targets) ==
    LET percentages == PARTIAL_EXIT_PERCENTAGES(num_targets)
        first == [i \in 1..(Len(percentages) - 1) |->
                     PartialQuantity(position_size, percentages[i])]
    IN  Append(first, position_size - SumQuantities(first, 1))

(* strategies/swing_detector.py.  A list of candles is a sequence; the index  *)
(* of the code, which counts from 0, addresses element index + 1.             *)

MaxCandles == 5       \* candles in the list given to the swing detector
MaxBars == 2          \* left_bars and right_bars are in 1..MaxBars

CandleAt(candles, index) == candles[index + 1]

\* mutant: a neighbour as high as the pivot does not spoil the swing high
is_valid_swing_high_weak(candles, index, left_bars, right_bars) ==
    IF index < left_bars \/ index >= Len(candles) - right_bars
    THEN [is_valid |-> FALSE, price_level |-> 0, bar_index |-> index]
    ELSE LET pivot_high == CandleAt(candles, index).high
         IN  IF \E i \in (index - left_bars)..(index - 1) :
                    CandleAt(candles, i).high > pivot_high
             THEN [is_valid |-> FALSE, price_level |-> 0, bar_index |-> index]
             ELSE IF \E i \in (index + 1)..(index + right_bars) :
                        CandleAt(candles, i).high > pivot_high
             THEN [is_valid |-> FALSE, price_level |-> 0, bar_index |-> index]
             ELSE [is_valid |-> TRUE, price_level |-> pivot_high, bar_index |-> index]

\* is_valid_swing_high: (is_valid, price_level, bar_index)
is_valid_swing_high(candles, index, left_bars, right_bars) ==
    IF index < left_bars \/ index >= Len(candles) - right_bars
    THEN [is_valid |-> FALSE, price_level |-> 0, bar_index |-> index]
    ELSE LET pivot_high == CandleAt(candles, index).high
         IN  IF \E i \in (index - left_bars)..(index - 1) :
                    CandleAt(candles, i).high >= pivot_high
             THEN [is_valid |-> FALSE, price_level |-> 0, bar_index |-> index]
             ELSE IF \E i \in (index + 1)..(index + right_bars) :
                        CandleAt(candles, i).high >= pivot_high
             THEN [is_valid |-> FALSE, price_level |-> 0, bar_index |-> index]
             ELSE [is_valid |-> TRUE, price_level |-> pivot_high, bar_index |-> index]

\* is_valid_swing_low: (is_valid, price_level, bar_index)
is_valid_swing_low(candles, index, left_bars, right_bars) ==
    IF index < left_bars \/ index >= Len(candles) - right_bars
    THEN [is_valid |-> FALSE, price_level |-> 0, bar_index |-> index]
    ELSE LET pivot_low == CandleAt(candles, index).low
         IN  IF \E i \in (index - left_bars)..(index - 1) :
                    CandleAt(candles, i).low <= pivot_low
             THEN [is_valid |-> FALSE, price_level |-> 0, bar_index |-> index]
             ELSE IF \E i \in (index + 1)..(index + right_bars) :
                        CandleAt(candles, i).low <= pivot_low
             THEN [is_valid |-> FALSE, price_level |-> 0, bar_index |-> index]
             ELSE [is_valid |-> TRUE, price_level |-> pivot_low, bar_index |-> index]

\* the loop of detect_all_swings from index i on: the swings of one kind
RECURSIVE SwingsFrom(_, _, _, _, _)
SwingsFrom(candles, i, left_bars, right_bars, high) ==
    IF i >= Len(candles) - right_bars THEN <<>>
    ELSE LET r == IF high THEN is_valid_swing_high(candles, i, left_bars, right_bars)
                  ELSE is_valid_swing_low(candles, i, left_bars, right_bars)
         IN  (IF r.is_valid
              THEN <<[price |-> r.price_level, index |-> r.bar_index]>> ELSE <<>>)
             \o SwingsFrom(candles, i + 1, left_bars, right_bars, high)

\* detect_all_swings: for i in range(left_bars, len(candles) - right_bars)
detect_all_swings(candles, left_bars, right_bars) ==
    [resistance_zones |-> SwingsFrom(candles, left_bars, left_bars, right_bars, TRUE),
     support_zones |-> SwingsFrom(candles, left_bars, left_bars, right_bars, FALSE)]

\* the candles given to the detector: three shapes of high and low
SwingCandles == {[high |-> 2, low |-> 1], [high |-> 3, low |-> 1], [high |-> 3, low |-> 2]}

CandleLists == UNION {[1..n -> SwingCandles] : n \in 0..MaxCandles}

(* strategies/pattern_detector.py: the bullish engulfing detector *)

_get_body_size(candle) == Abs(candle.close - candle.open)

_is_bullish(candle) == candle.close > candle.open

_is_bearish(candle) == candle.close < candle.open

Min(a, b) == IF a <= b THEN a ELSE b

\* mutant: a body of the same size engulfs as well
detect_bullish_engulfing_same_size(candles, index) ==
    IF index < 1 THEN None
    ELSE LET prev_candle == CandleAt(candles, index - 1)
             curr_candle == CandleAt(candles, index)
         IN  IF ~_is_bearish(prev_candle) \/ ~_is_bullish(curr_candle) THEN None
             ELSE IF /\ curr_candle.open <= prev_candle.close
                     /\ curr_candle.close >= prev_candle.open
                     /\ _get_body_size(curr_candle) >= _get_body_size(prev_candle)
             THEN [pattern_name |-> "bullish_engulfing", direction |-> "bullish",
                   confidence |-> 75, pattern_high |-> curr_candle.high,
                   pattern_low |-> Min(prev_candle.low, curr_candle.low)]
             ELSE None

\* detect_bullish_engulfing; the confidence 0.75 is carried in hundredths
detect_bullish_engulfing(candles, index) ==
    IF index < 1 THEN None
    ELSE LET prev_candle == CandleAt(candles, index - 1)
             curr_candle == CandleAt(candles, index)
         IN  IF ~_is_bearish(prev_candle) \/ ~_is_bullish(curr_candle) THEN None
             ELSE IF /\ curr_candle.open <= prev_candle.close
                     /\ curr_candle.close >= prev_candle.open
                     /\ _get_body_size(curr_candle) > _get_body_size(prev_candle)
             THEN [pattern_name |-> "bullish_engulfing", direction |-> "bullish",
                   confidence |-> 75, pattern_high |-> curr_candle.high,
                   pattern_low |-> Min(prev_candle.low, curr_candle.low)]
             ELSE None

\* opens and closes of the candles given to the detector (10, 8, 7.5 and 10.5
\* in tenths, and 5 below them)
EngulfingPrices == {50, 75, 80, 100, 105}

\* candles without shadows
EngulfingCandles ==
    {[open |-> o, close |-> c, high |-> Max(o, c), low |-> Min(o, c)] :
        o \in EngulfingPrices, c \in EngulfingPrices}

InitStrategies ==
    /\ ExitIdle
    /\ ZoneIdle
    /\ CallsIdle
    /\ AppIdle

\* a call of calculate_multiple_targets with RR levels
CalculateMultipleTargetsRR ==
    /\ fn_call = NoCall
    /\ \E side \in {SIDE_BUY, SIDE_SELL}, target_levels \in TargetLevelLists :
          LET entry_price == 1004000
              stop_loss == IF side = SIDE_BUY THEN 1002000 ELSE 1006000
          IN  fn_call' = [op |-> "calculate_multiple_targets", side |-> side,
                          target_type |-> "rr", num_targets |-> Len(target_levels),
                          result |-> calculate_multiple_targets(
                                         entry_price, stop_loss, side, "rr",
                                         target_levels, <<>>)]
    /\ UNCHANGED <<exitVars, zoneVars, sync_result, scan_result, appVars>>

\* a call of calculate_multiple_targets with target zones
CalculateMultipleTargetsZone ==
    /\ fn_call = NoCall
    /\ \E side \in {SIDE_BUY, SIDE_SELL} : \E vrz_zones \in TargetZoneLists(side) :
          LET entry_price == 1004000
              stop_loss == IF side = SIDE_BUY THEN 1002000 ELSE 1006000
          IN  fn_call' = [op |-> "calculate_multiple_targets", side |-> side,
                          target_type |-> "zone", num_targets |-> Len(vrz_zones),
                          result |-> calculate_multiple_targets(
                                         entry_price, stop_loss, side, "zone",
                                         <<>>, vrz_zones)]
    /\ UNCHANGED <<exitVars, zoneVars, sync_result, scan_result, appVars>>

\* a call of calculate_partial_exits
CalculatePartialExits ==
    /\ fn_call = NoCall
    /\ \E position_size \in PartialExitSizes, num_targets \in 1..4 :
          fn_call' = [op |-> "calculate_partial_exits",
                      position_size |-> position_size, num_targets |-> num_targets,
                      result |-> calculate_partial_exits(position_size, num_targets)]
    /\ UNCHANGED <<exitVars, zoneVars, sync_result, scan_result, appVars>>

\* a call of is_valid_swing_high; the index may lie outside the list
IsValidSwingHigh ==
    /\ fn_call = NoCall
    /\ \E candles \in CandleLists, left_bars \in 1..MaxBars, right_bars \in 1..MaxBars :
       \E index \in (0 - 1)..Len(candles) :
          fn_call' = [op |-> "is_valid_swing_high", candles |-> candles,
                      index |-> index, left_bars |-> left_bars,
                      right_bars |-> right_bars,
                      result |-> is_valid_swing_high(candles, index, left_bars,
                                                     right_bars)]
    /\ UNCHANGED <<exitVars, zoneVars, sync_result, scan_result, appVars>>

\* a call of is_valid_swing_low
IsValidSwingLow ==
    /\ fn_call = NoCall
    /\ \E candles \in CandleLists, left_bars \in 1..MaxBars, right_bars \in 1..MaxBars :
       \E index \in (0 - 1)..Len(candles) :
          fn_call' = [op |-> "is_valid_swing_low", candles |-> candles,
                      index |-> index, left_bars |-> left_bars,
                      right_bars |-> right_bars,
                      result |-> is_valid_swing_low(candles, index, left_bars,
                                                    right_bars)]
    /\ UNCHANGED <<exitVars, zoneVars, sync_result, scan_result, appVars>>

\* a call of detect_all_swings
DetectAllSwings ==
    /\ fn_call = NoCall
    /\ \E candles \in CandleLists, left_bars \in 1..MaxBars, right_bars \in 1..MaxBars :
          fn_call' = [op |-> "detect_all_swings", candles |-> candles,
                      left_bars |-> left_bars, right_bars |-> right_bars,
                      result |-> detect_all_swings(candles, left_bars, right_bars)]
    /\ UNCHANGED <<exitVars, zoneVars, sync_result, scan_result, appVars>>

\* a call of detect_bullish_engulfing on a pair of candles, at index 0 or 1
DetectBullishEngulfing ==
    /\ fn_call = NoCall
    /\ \E first \in EngulfingCandles, second \in EngulfingCandles, index \in 0..1 :
          fn_call' = [op |-> "detect_bullish_engulfing", candles |-> <<first, second>>,
                      index |-> index,
                      result |-> detect_bullish_engulfing(<<first, second>>, index)]
    /\ UNCHANGED <<exitVars, zoneVars, sync_result, scan_result, appVars>>

\* the caller has used the result
CallReturn ==
    /\ fn_call # NoCall
    /\ fn_call' = NoCall
    /\ UNCHANGED <<exitVars, zoneVars, sync_result, scan_result, appVars>>

NextStrategies ==
    \/ CalculateMultipleTargetsRR
    \/ CalculateMultipleTargetsZone
    \/ CalculatePartialExits
    \/ IsValidSwingHigh
    \/ IsValidSwingLow
    \/ DetectAllSwings
    \/ DetectBullishEngulfing
    \/ CallReturn

\* calls of the functions of strategies/
SpecStrategies == InitStrategies /\ [][NextStrategies]_vars

----------------------------------------------------------------------------
(* strategies/vrz_calculator.py: the bounds of a zone and the zones created *)

MaxBufferX10 == 5     \* buffer_percent of a calculator, in tenths of a percent

\* price levels whose buffer is a whole number of price units
BoundLevels == {1000, 1000000, 1010000}

\* a call of _calculate_zone_bounds on a calculator with some buffer_percent
CalculateZoneBounds ==
    /\ fn_call = NoCall
    /\ \E price_level \in BoundLevels, buffer_percent_x10 \in 1..MaxBufferX10 :
          fn_call' = [op |-> "_calculate_zone_bounds", price_level |-> price_level,
                      buffer_percent_x10 |-> buffer_percent_x10,
                      result |-> ZoneBounds(price_level, buffer_percent_x10)]
    /\ UNCHANGED <<exitVars, zoneVars, sync_result, scan_result, appVars>>

NextBounds ==
    \/ CalculateZoneBounds
    \/ CreateZone
    \/ CallReturn

\* bounds computed and zones created on a zone store
SpecBounds == InitZone /\ [][NextBounds]_vars

----------------------------------------------------------------------------
(* Properties of the exit processing *)

RECURSIVE SumExitQuantity(_, _)
SumExitQuantity(exit_details, k) ==
    IF k > Len(exit_details) THEN 0
    ELSE exit_details[k].exit_quantity + SumExitQuantity(exit_details, k + 1)

ActionsOfKind(actions, kind) == {k \in DOMAIN actions : actions[k].action = kind}

\* the stored document of the position the loop is visiting
Stored == trades[FindOne(trades, Position.id)]

\* manage_exits has just returned and nothing of its result is applied yet
JustEvaluated == loop_pc = "actions" /\ action_idx = 1

Favourable(trade, price) ==
    IF trade.side = SIDE_BUY THEN price > trade.entry_price
    ELSE price < trade.entry_price

StopUnfavourable(trade) ==
    IF trade.side = SIDE_BUY THEN trade.stop_loss < trade.entry_price
    ELSE trade.stop_loss > trade.entry_price

\* C1: the stored remaining_size of a position never increases, whatever the
\* interleaving of the loop's exit processing with close_position.
C1_RemainingSizeNeverIncreases ==
    [][\A i \in DOMAIN trades :
          trades'[i].remaining_size <= trades[i].remaining_size]_vars

\* C2: once the actions of a price update are all applied, position_size equals
\* remaining_size plus the exit quantities recorded in exit_details.
C2_SizeConservation ==
    loop_pc # "actions" =>
        \A i \in DOMAIN trades :
            trades[i].position_size =
                trades[i].remaining_size + SumExitQuantity(trades[i].exit_details, 1)

\* C3: when the price has reached the stop and the exit order succeeds, manage_exits
\* emits exactly one stop_loss_exit, for the entire remaining size of the position;
\* a position with an applied stop_loss_exit has remaining_size 0 and is closed.
C3_StopLossExitClosesAll ==
    /\ (JustEvaluated
        /\ _is_stop_loss_hit(current_price, Position.stop_loss, Position.side)
        /\ order_responses.stop)
       => /\ Cardinality(ActionsOfKind(exit_result, "stop_loss_exit")) = 1
          /\ \A k \in ActionsOfKind(exit_result, "stop_loss_exit") :
                /\ exit_result[k].exit_quantity = Stored.remaining_size
                /\ exit_result[k].exit_quantity = Position.remaining_size
                /\ exit_result[k].remaining_quantity = 0
    /\ \A i \in DOMAIN trades :
          ActionsOfKind(trades[i].exit_details, "stop_loss_exit") # {}
             => trades[i].remaining_size = 0 /\ trades[i].status = "closed"

C3_Witness ==
    \E i \in DOMAIN trades :
        /\ ActionsOfKind(trades[i].exit_details, "stop_loss_exit") # {}
        /\ ActionsOfKind(trades[i].exit_details, "partial_exit") # {}
        /\ trades[i].position_size > 1

C5_TrailOnce ==
    /\ [][\A i \in DOMAIN trades :
            trades[i].stop_loss = trades[i].entry_price
               => trades'[i].stop_loss = trades'[i].entry_price]_vars
    /\ [](JustEvaluated =>
            /\ Stored.stop_loss = Position.stop_loss
            /\ Cardinality(ActionsOfKind(exit_result, "trail_stop")) <= 1
            /\ \A k \in ActionsOfKind(exit_result, "trail_stop") :
                  exit_result[k].new_stop_loss = Position.entry_price
            /\ (/\ Len(Position.exit_details) > 0
                /\ Position.remaining_size > 0
                /\ Favourable(Position, current_price)
                /\ StopUnfavourable(Position))
               => Cardinality(ActionsOfKind(exit_result, "trail_stop")) = 1
            /\ Stored.stop_loss = Stored.entry_price
               => ActionsOfKind(exit_result, "trail_stop") = {})

\* the stop was trailed to the entry and a later update at a favourable price came
C5_Witness ==
    /\ JustEvaluated
    /\ Stored.stop_loss = Stored.entry_price
    /\ Stored.remaining_size > 0
    /\ Stored.status = "open"
    /\ Favourable(Position, current_price)

\* C6: a position whose stored status is closed is never stored as open again.
C6_ClosedStaysClosed ==
    [][\A i \in DOMAIN trades :
          trades[i].status = "closed" => trades'[i].status = "closed"]_vars

\* a closed position to which a stale exit action was applied afterwards
C6_Witness ==
    \E i \in DOMAIN trades :
        /\ trades[i].status = "closed"
        /\ trades[i].remaining_size > 0
        /\ Len(trades[i].exit_details) > 0

----------------------------------------------------------------------------
(* Properties of the zone store *)

\* the zones of the store that are invalidated
InvalidatedIds == {zones[i].id : i \in {j \in DOMAIN zones :
                                          zones[j].status = ZONE_STATUS_INVALIDATED}}

\* the zones check_and_invalidate has still to examine
ToExamine == {active_zones[k].id : k \in {j \in DOMAIN active_zones : j >= zone_idx}}

\* C7: zone invalidation is one-way.  A zone stored as invalidated keeps that
\* status in every later step (whatever candle is checked), is not among the zones
\* check_and_invalidate examines, and is in no result of get_nearest_zones or of
\* the two get_active_zones.
C7_InvalidationOneWay ==
    /\ [][\A i \in DOMAIN zones :
             zones[i].status = ZONE_STATUS_INVALIDATED =>
                /\ i \in DOMAIN zones'
                /\ zones'[i].id = zones[i].id
                /\ zones'[i].status = ZONE_STATUS_INVALIDATED]_vars
    /\ [](check_pc = "loop" => ToExamine \cap InvalidatedIds = {})
    /\ [](zone_query # NoQuery =>
             \A k \in DOMAIN zone_query.result :
                 zone_query.result[k].id \notin InvalidatedIds)

\* C7 witness: get_nearest_zones was asked for the symbol, timeframe and type of a
\* zone that is stored as invalidated, with room left under the limit
C7_Witness ==
    /\ zone_query # NoQuery
    /\ zone_query.op = "get_nearest_zones"
    /\ Len(zone_query.result) < zone_query.limit
    /\ \E i \in DOMAIN zones :
          /\ zones[i].status = ZONE_STATUS_INVALIDATED
          /\ zones[i].symbol = zone_query.symbol
          /\ zones[i].timeframe = zone_query.timeframe
          /\ zones[i].type = zone_query.zone_type

\* C8: when check_and_invalidate(symbol, candle) has examined a zone, that zone,
\* if it was active and breached (resistance: high > zone_upper, support:
\* low < zone_lower), is stored as invalidated with breach price candle.close,
\* and every other zone of the store is unchanged.
C8_CheckAndInvalidatePostcondition ==
    [][(check_pc = "loop" /\ zone_idx' = zone_idx + 1) =>
          \A i \in DOMAIN zones :
             IF /\ zones[i].id = active_zones[zone_idx].id
                /\ zones[i].symbol = check_args.symbol
                /\ zones[i].status = ZONE_STATUS_ACTIVE
                /\ Breached(zones[i], check_args.current_candle)
             THEN /\ zones'[i].status = ZONE_STATUS_INVALIDATED
                  /\ zones'[i].breach_price = check_args.current_candle.close
             ELSE zones'[i] = zones[i]]_vars

----------------------------------------------------------------------------
(* Properties of the reconciliation *)

\* the entries of the last result that name the position
EntriesOf(position) ==
    {k \in DOMAIN sync_result.discrepancies :
        sync_result.discrepancies[k].position_id = Str(position.id)}

\* the exchange positions of the last call that carry the product of the position
SameProduct(position) ==
    {k \in DOMAIN sync_result.exchange_positions :
        sync_result.exchange_positions[k].product_id = position.product_id}

\* C9: after sync_with_exchange read the exchange and the store, each open position
\* of the user has exactly one size_mismatch entry when an exchange position of its
\* product exists with another absolute size, exactly one missing_on_exchange entry
\* when no exchange position has its product, and no entry when the sizes are
\* equal; positions that are closed or of another user have no entry.
C9_SyncDiscrepancies ==
    (sync_result # NoSync /\ ~sync_result.failed) =>
        \A i \in DOMAIN trades :
            LET position == trades[i]
                d == sync_result.discrepancies
                ex == sync_result.exchange_positions
            IN  IF /\ position.status = "open"
                   /\ position.telegram_user_id = sync_result.telegram_user_id
                THEN IF SameProduct(position) = {}
                     THEN /\ Cardinality(EntriesOf(position)) = 1
                          /\ \A k \in EntriesOf(position) :
                                d[k].type = "missing_on_exchange"
                     ELSE IF \E e \in SameProduct(position) :
                                Abs(ex[e].size) # position.remaining_size
                     THEN /\ Cardinality(EntriesOf(position)) = 1
                          /\ \A k \in EntriesOf(position) :
                                /\ d[k].type = "size_mismatch"
                                /\ d[k].local_size = position.remaining_size
                                /\ \E e \in SameProduct(position) :
                                      d[k].exchange_size = Abs(ex[e].size)
                     ELSE EntriesOf(position) = {}
                ELSE EntriesOf(position) = {}

\* C9 witness: a local position of remaining size 5 whose exchange position has
\* size 3 gave a size_mismatch, and a short exchange position of equal absolute
\* size gave no entry
C9_Witness ==
    /\ sync_result # NoSync
    /\ ~sync_result.failed
    /\ \E k \in DOMAIN sync_result.discrepancies :
          /\ sync_result.discrepancies[k].type = "size_mismatch"
          /\ sync_result.discrepancies[k].local_size = 5
          /\ sync_result.discrepancies[k].exchange_size = 3
    /\ \E i \in DOMAIN trades :
          /\ trades[i].status = "open"
          /\ trades[i].telegram_user_id = sync_result.telegram_user_id
          /\ EntriesOf(trades[i]) = {}
          /\ \E e \in SameProduct(trades[i]) :
                sync_result.exchange_positions[e].size = 0 - trades[i].remaining_size

----------------------------------------------------------------------------
(* Properties of the entry scan *)

\* the price is near an active zone of the type: some active zone of the symbol
\* has the price within its bounds extended by the 0.5% proximity
NearActiveZone(coll, symbol, type, price) ==
    \E i \in DOMAIN coll :
        /\ coll[i].symbol = symbol
        /\ coll[i].type = type
        /\ coll[i].status = ZONE_STATUS_ACTIVE
        /\ is_price_near_zone(price, coll[i], 5)

\* the direction of the highest-confidence pattern, the first one among equals
BestDirection(patterns) ==
    LET top == {i \in DOMAIN patterns : \A j \in DOMAIN patterns :
                   patterns[i].confidence >= patterns[j].confidence}
    IN  patterns[CHOOSE i \in top : \A j \in top : i <= j].direction

\* C10: a scan returns a buy signal only if the highest-confidence pattern is
\* bullish and the price is near an active support zone, a sell signal only if
\* that pattern is bearish and the price is near an active resistance zone, and
\* no signal for any other pairing.
C10_SignalPairing ==
    [][(scan_result' # NoScan /\ scan_result'.signal # None) =>
          LET r == scan_result'
          IN  /\ r.patterns # <<>>
              /\ \/ /\ r.signal.side = SIDE_BUY
                    /\ BestDirection(r.patterns) = "bullish"
                    /\ NearActiveZone(zones, r.symbol, ZONE_TYPE_SUPPORT, r.current_price)
                 \/ /\ r.signal.side = SIDE_SELL
                    /\ BestDirection(r.patterns) = "bearish"
                    /\ NearActiveZone(zones, r.symbol, ZONE_TYPE_RESISTANCE,
                                      r.current_price)]_vars

\* C10 witness: a buy signal was returned while a resistance zone was near as well
C10_Witness ==
    /\ scan_result # NoScan
    /\ scan_result.signal # None
    /\ scan_result.signal.side = SIDE_BUY
    /\ scan_result.near_resistance # None

\* C11: every signal a scan returns has, for its first target, a risk/reward
\* |target - entry| / |entry - stop| of at least the minimum (1.5) with a non-zero
\* risk, and stop_loss < entry_price < target for a buy, stop_loss > entry_price >
\* target for a sell; a setup failing any of these yields no signal.
C11_SignalMeetsMinimumRR ==
    (scan_result # NoScan /\ scan_result.signal # None) =>
        LET s == scan_result.signal
            target == s.targets[1].price
            risk == Abs(s.entry_price - s.stop_loss)
            reward == Abs(target - s.entry_price)
        IN  /\ s.targets # <<>>
            /\ risk > 0
            /\ 2 * reward >= MIN_RISK_REWARD_RATIO_X2 * risk
            /\ s.side = SIDE_BUY => s.stop_loss < s.entry_price /\ s.entry_price < target
            /\ s.side = SIDE_SELL => s.stop_loss > s.entry_price /\ s.entry_price > target

\* C11 witness: a signal whose first target is a zone bound was returned
C11_Witness ==
    /\ scan_result # NoScan
    /\ scan_result.signal # None
    /\ scan_result.signal.side = SIDE_BUY
    /\ \E i \in DOMAIN zones : /\ zones[i].type = ZONE_TYPE_RESISTANCE
                                /\ zones[i].zone_lower = scan_result.signal.targets[1].price

----------------------------------------------------------------------------
(* Properties of the trading loop *)

\* the users of the list the iteration works on
ActiveUserIds == {active_users[k].telegram_user_id : k \in DOMAIN active_users}

\* the iteration is over: the loop sleeps at line 173 or, after an exception, 177
IterationOver == app_pc \in {"sleep", "except"}

\* C12: within one iteration an exception raised while processing one asset, one
\* open position or one user does not keep the remaining users and positions of
\* that iteration from being processed: when the iteration is over, every active
\* user and every open position of an active user has been come to.
C12_FailureIsPerItem ==
    IterationOver =>
        /\ \A u \in ActiveUserIds : <<"user", u>> \in attempted
        /\ \A i \in DOMAIN trades :
              (trades[i].status = "open" /\ trades[i].telegram_user_id \in ActiveUserIds)
                  => <<"position", trades[i].id>> \in attempted

\* C13: the loop does not end because of a failure inside an iteration: after an
\* exception raised in an iteration, a further iteration is eventually started
\* unless running is cleared by a shutdown.
C13_LoopGoesOn ==
    (app_pc \in {"except", "crashed"}) ~> (app_pc = "user" \/ ~running)

\* C13 witness: the candle fetch of a position has raised and no shutdown is asked
C13_Witness ==
    /\ app_pc = "except"
    /\ running
    /\ open_positions # <<>>
    /\ pos_idx <= Len(open_positions)

\* the order the loop is recording: its response is in flight or its position is
\* being created
BeingRecorded(order_id) ==
    /\ app_pc \in {"order_sent", "create"}
    /\ order_response.success
    /\ order_response.result.id = order_id

\* C14: every entry order the exchange acknowledged has a local position record,
\* once the loop is past create_position for it: neither a failing
\* create_position nor a cancellation between place_order and create_position
\* leaves an acknowledged order without a position.
C14_AcknowledgedOrderHasPosition ==
    \A order_id \in acknowledged :
        \/ \E i \in DOMAIN trades : trades[i].order_id = order_id
        \/ BeingRecorded(order_id)

----------------------------------------------------------------------------
(* Property of the order placement *)

\* C15: for one position at most one order-affecting action is in flight at a
\* time: while the exchange close of a close_position call is in flight for a
\* position, the trading loop places no exit order for that position.
C15_OneOrderActionInFlight ==
    [][close_pc = "closing" =>
          \A k \in (Len(orders) + 1)..Len(orders') :
              Str(orders'[k].position_id) # close_id]_vars

----------------------------------------------------------------------------
(* Property of VRZCalculator.get_active_zones *)

\* the stored zones get_active_zones is to choose from: active zones of the symbol
\* and the base timeframe, resistance strictly above the price, support strictly
\* below it
Eligible(coll, symbol, type, price) ==
    {i \in DOMAIN coll :
        /\ coll[i].symbol = symbol
        /\ coll[i].timeframe = base_timeframe
        /\ coll[i].type = type
        /\ coll[i].status = ZONE_STATUS_ACTIVE
        /\ IF type = ZONE_TYPE_RESISTANCE
           THEN coll[i].zone_lower > price ELSE coll[i].zone_upper < price}

\* C16: get_active_zones(symbol, price, max_zones) returns, for each zone type,
\* the max_zones nearest of the active zones strictly above (resistance) or
\* strictly below (support) the price; in particular the result for a type is
\* non-empty whenever such a zone exists.
C16_NearestEligibleZones ==
    zone_query.op = "vrz_calculator.get_active_zones" =>
        \A type \in ZoneTypes :
            LET eligible == Eligible(zones, zone_query.symbol, type, zone_query.price)
                returned == {zones[i].id : i \in {j \in DOMAIN zones :
                               \E k \in DOMAIN zone_query.result :
                                  /\ zone_query.result[k].id = zones[j].id
                                  /\ zone_query.result[k].type = type}}
            IN  /\ returned \subseteq {zones[i].id : i \in eligible}
                /\ Cardinality(returned) =
                      IF Cardinality(eligible) < zone_query.limit
                      THEN Cardinality(eligible) ELSE zone_query.limit
                /\ \A i \in eligible :
                      zones[i].id \notin returned =>
                          \A j \in eligible :
                              zones[j].id \in returned =>
                                  Abs(zones[j].price_level - zone_query.price)
                                      <= Abs(zones[i].price_level - zone_query.price)

----------------------------------------------------------------------------
(* Properties of the functions of strategies/ *)

RECURSIVE SumExitPercentage(_, _)
SumExitPercentage(targets, k) ==
    IF k > Len(targets) THEN 0
    ELSE targets[k].exit_percentage + SumExitPercentage(targets, k + 1)

\* C17: for every target list calculate_multiple_targets returns, in RR mode or
\* zone mode and for any number of targets >= 1, the exit_percentage values of
\* the targets sum to 100.
C17_ExitPercentagesSumTo100 ==
    (fn_call.op = "calculate_multiple_targets" /\ fn_call.num_targets >= 1) =>
        /\ Len(fn_call.result) = fn_call.num_targets
        /\ SumExitPercentage(fn_call.result, 1) = 100

\* C18: calculate_partial_exits(size, n) returns quantities whose sum equals size
\* exactly, for every size >= 1 and every n in 1..4 (size 100, n 3 sums to 100).
C18_PartialExitsSumToSize ==
    (fn_call.op = "calculate_partial_exits" /\ fn_call.position_size >= 1
        /\ fn_call.num_targets \in 1..4) =>
        /\ Len(fn_call.result) = fn_call.num_targets
        /\ SumQuantities(fn_call.result, 1) = fn_call.position_size

\* C18 witness: size 100 over three targets gives 33, 33 and the remaining 34
C18_Witness ==
    /\ fn_call.op = "calculate_partial_exits"
    /\ fn_call.position_size = 100
    /\ fn_call.num_targets = 3
    /\ fn_call.result = <<33, 33, 34>>

\* the candle at index is a pivot: the index leaves left_bars candles before it
\* and right_bars after it, and each of them is strictly below (high) or strictly
\* above (low) the candle at the index
IsPivot(candles, index, left_bars, right_bars, high) ==
    /\ left_bars <= index
    /\ index < Len(candles) - right_bars
    /\ \A k \in 1..left_bars :
          IF high THEN candles[index + 1 - k].high < candles[index + 1].high
          ELSE candles[index + 1 - k].low > candles[index + 1].low
    /\ \A k \in 1..right_bars :
          IF high THEN candles[index + 1 + k].high < candles[index + 1].high
          ELSE candles[index + 1 + k].low > candles[index + 1].low

----------------------------------------------------------------------------
(* Property of the pattern choice *)

\* the place of the detector reporting the pattern in the evaluation order:
\* two-candle, three-candle, then single-candle detectors
DetectorOrder(pattern_name) ==
    CHOOSE d \in DOMAIN PatternTable : PatternTable[d].pattern_name = pattern_name

\* C20: the pattern used for an entry decision is the detected match of the
\* highest confidence and, among matches of equal confidence, the one whose
\* detector comes first in the evaluation order; it is absent iff no detector
\* matches.
C20_BestPatternFirstMax ==
    scan_result # NoScan =>
        LET r == scan_result
        IN  /\ r.best_pattern = None <=> r.patterns = <<>>
            /\ r.patterns # <<>> =>
                  /\ \E i \in DOMAIN r.patterns : r.patterns[i] = r.best_pattern
                  /\ \A j \in DOMAIN r.patterns :
                        \/ r.patterns[j].confidence < r.best_pattern.confidence
                        \/ /\ r.patterns[j].confidence = r.best_pattern.confidence
                           /\ DetectorOrder(r.best_pattern.pattern_name)
                                 <= DetectorOrder(r.patterns[j].pattern_name)

\* C20 witness: two patterns of equal confidence matched and the one of the
\* earlier detector was chosen
C20_Witness ==
    /\ scan_result # NoScan
    /\ Len(scan_result.patterns) = 2
    /\ scan_result.patterns[1].confidence = scan_result.patterns[2].confidence
    /\ scan_result.patterns[1].pattern_name # scan_result.patterns[2].pattern_name
    /\ scan_result.best_pattern = scan_result.patterns[1]

----------------------------------------------------------------------------
(* Frame of the entry scan *)

\* C21: scan_for_entry_signals leaves the zone store unchanged: whether or not it
\* returns a signal, it creates no zone, modifies no zone and invalidates none.
C21_ScanLeavesZoneStore ==
    [][(scan_result = NoScan /\ scan_result' # NoScan) => zones' = zones]_vars

----------------------------------------------------------------------------
(* Property of the zone bounds *)

----------------------------------------------------------------------------
(* Property of the bullish engulfing detector *)

\* C23: detect_bullish_engulfing(candles, i) returns a match (direction bullish,
\* confidence 0.75) iff candle i-1 is bearish, candle i is bullish, open_i <=
\* close_(i-1), close_i >= open_(i-1) and the body of candle i is strictly larger
\* than that of candle i-1; a matched pair of candles is not matched in reversed
\* order.
C23_BullishEngulfing ==
    fn_call.op = "detect_bullish_engulfing" =>
        LET i == fn_call.index
            matched == fn_call.result # None
        IN  /\ i = 0 => ~matched
            /\ i = 1 =>
                  LET prev == fn_call.candles[1]
                      curr == fn_call.candles[2]
                  IN  matched <=>
                         /\ prev.close < prev.open
                         /\ curr.close > curr.open
                         /\ curr.open <= prev.close
                         /\ curr.close >= prev.open
                         /\ curr.close - curr.open > prev.open - prev.close
            /\ matched =>
                  /\ fn_call.result.direction = "bullish"
                  /\ fn_call.result.confidence = 75
                  /\ detect_bullish_engulfing(Reverse(fn_call.candles), i) = None

\* C23 witness: a bearish candle 10 -> 8 followed by a bullish 7.5 -> 10.5 matches
C23_Witness ==
    /\ fn_call.op = "detect_bullish_engulfing"
    /\ fn_call.index = 1
    /\ fn_call.candles[1].open = 100 /\ fn_call.candles[1].close = 80
    /\ fn_call.candles[2].open = 75 /\ fn_call.candles[2].close = 105
    /\ fn_call.result # None

----------------------------------------------------------------------------
(* Properties of failed exit orders *)

\* the target levels whose exit order failed or raised in the evaluation just made
FailedLevels == AttemptedLevels(Position, current_price) \ order_responses.targets

\* the stop-loss exit order of the evaluation just made failed or raised
FailedStop == StopAttempted(Position, current_price) /\ ~order_responses.stop

\* C24: an exit whose exchange order fails or raises gives no action; manage_exits
\* places at most one order per exit in one evaluation; when every order of the
\* evaluation failed the stored position keeps its size, exit_details, pnl and
\* status; and as long as the stored position is open, the failed exit is due again
\* when the position is evaluated at a price where its trigger holds.
C24_FailedExitOrder ==
    loop_pc = "actions" =>
        /\ \A k \in ActionsOfKind(exit_result, "partial_exit") :
              exit_result[k].target_level \notin FailedLevels
        /\ FailedStop => ActionsOfKind(exit_result, "stop_loss_exit") = {}
        /\ FailedLevels \cap ExitedLevels(Stored) = {}
        /\ LET calls == PlaceOrderCalls(Position, current_price)
           IN  /\ \A i, j \in DOMAIN calls : calls[i] = calls[j] => i = j
               /\ {calls[i].target_level : i \in {j \in DOMAIN calls :
                                                   calls[j].kind = "partial_exit"}}
                     = AttemptedLevels(Position, current_price)
        /\ (order_responses.targets = {} /\ ~order_responses.stop)
              => Stored = [Position EXCEPT !.stop_loss = Stored.stop_loss]
        /\ Stored.status = "open" =>
              /\ FailedLevels \subseteq AttemptedLevels(Stored, current_price)
              /\ FailedStop => StopAttempted(Stored, current_price)

\* the actions of an evaluation are all applied; one exit order of it failed and
\* another succeeded, and the position is still open
C24_Witness ==
    /\ loop_pc = "actions"
    /\ action_idx > Len(exit_result)
    /\ FailedLevels # {}
    /\ order_responses.targets # {}
    /\ Stored.status = "open"
    /\ Len(Stored.exit_details) > Len(Position.exit_details)

RECURSIVE SumOrderSizes(_, _, _)
SumOrderSizes(placed, position_id, k) ==
    IF k > Len(placed) THEN 0
    ELSE (IF placed[k].position_id = position_id THEN placed[k].size ELSE 0)
         + SumOrderSizes(placed, position_id, k + 1)

\* C25: the sizes of the exit orders placed for a position, partial exits and
\* stop-loss exit together, never add up to more than the position's original size.
C25_ExitOrdersWithinSize ==
    \A i \in DOMAIN trades :
        SumOrderSizes(orders, trades[i].id, 1) <= trades[i].position_size

\* the stop is on the losing side of the entry, or at the entry once trailed, and
\* every target is on the winning side
WellPlaced(trade) ==
    IF trade.side = SIDE_BUY
    THEN /\ trade.stop_loss <= trade.entry_price
         /\ \A k \in DOMAIN trade.targets : trade.entry_price < trade.targets[k].price
    ELSE /\ trade.stop_loss >= trade.entry_price
         /\ \A k \in DOMAIN trade.targets : trade.entry_price > trade.targets[k].price

\* C26: for a position whose stop is below the entry (or at it, once trailed) and whose
\* targets are all above the entry (mirrored for sell), one evaluation emits a
\* stop_loss_exit together with neither a partial_exit nor a trail_stop.
C26_StopExitAlone ==
    (loop_pc = "actions" /\ WellPlaced(Position)) =>
        (ActionsOfKind(exit_result, "stop_loss_exit") # {} =>
            /\ ActionsOfKind(exit_result, "partial_exit") = {}
            /\ ActionsOfKind(exit_result, "trail_stop") = {})

\* a stop_loss_exit emitted at the entry price after the stop was trailed there, for a
\* position with something left and a target not yet exited
C26_Witness ==
    /\ JustEvaluated
    /\ WellPlaced(Position)
    /\ ActionsOfKind(exit_result, "stop_loss_exit") # {}
    /\ Position.stop_loss = Position.entry_price
    /\ current_price = Position.entry_price
    /\ Len(Position.exit_details) > 0
    /\ Position.remaining_size > 0
    /\ \E k \in DOMAIN Position.targets :
          Position.targets[k].level \notin ExitedLevels(Position)

\* every target of the position has an exit_details entry: its exit order succeeded
\* and the action was applied
AllTargetsExited(trade) ==
    {trade.targets[k].level : k \in DOMAIN trade.targets} \subseteq ExitedLevels(trade)

\* C27: once every target of a position has been hit and exited, all exit orders
\* having succeeded and their actions applied, the stored position has
\* remaining_size 0 and status closed.
C27_AllTargetsHitCloses ==
    loop_pc # "actions" =>
        \A i \in DOMAIN trades :
            AllTargetsExited(trades[i])
               => trades[i].remaining_size = 0 /\ trades[i].status = "closed"

\* C28: a stored position whose status is closed is not modified by any later step:
\* remaining_size, stop_loss, exit_details and pnl stay as they are.
C28_ClosedIsFrozen ==
    [][\A i \in DOMAIN trades :
          trades[i].status = "closed" => trades'[i] = trades[i]]_vars

\* C29: a user never has two open positions on one symbol: the loop opens no position
\* for a user on a symbol on which that user has an open position.
C29_OneOpenPositionPerSymbol ==
    \A i, j \in DOMAIN trades :
        (/\ trades[i].status = "open"
         /\ trades[j].status = "open"
         /\ trades[i].telegram_user_id = trades[j].telegram_user_id
         /\ trades[i].symbol = trades[j].symbol)
        => i = j

\* C30: sync_with_exchange returns an empty list only when both reads succeeded and
\* every open position of the user has an exchange position of the same product_id
\* and of equal size.
C30_EmptyMeansSynchronized ==
    (sync_result # NoSync /\ sync_result.discrepancies = <<>>) =>
        /\ ~sync_result.failed
        /\ \A i \in DOMAIN trades :
              (/\ trades[i].status = "open"
               /\ trades[i].telegram_user_id = sync_result.telegram_user_id)
              => \E e \in DOMAIN sync_result.exchange_positions :
                    /\ sync_result.exchange_positions[e].product_id = trades[i].product_id
                    /\ exchange_size(sync_result.exchange_positions[e])
                          = trades[i].remaining_size

====
